---- MODULE Spec2Model ----
(***************************************************************************)
(* Bogo3D: interactive plots of the Bogoliubov dispersion of a fluid of    *)
(* light.  The scripts evaluate a closed-form dispersion formula over a    *)
(* numpy grid and along a one-dimensional cut, inside Dash / Shiny         *)
(* callbacks that are driven by sliders.                                   *)
(*                                                                         *)
(* Numbers.  The scripts compute in float64.  The model computes in exact  *)
(* arithmetic: a finite number is a rational sg * n / d whose numerator    *)
(* and denominator are arbitrary-precision naturals (sequences of limbs,   *)
(* least significant first), np.sqrt of a non-negative rational r is kept  *)
(* as the surd [k |-> "sqrt", r |-> r], and np.sqrt of a negative number   *)
(* is NaN, as numpy returns it.  Equality of two numbers is RealEq (their  *)
(* values), never equality of their representations.                       *)
(***************************************************************************)
EXTENDS Integers, Sequences, FiniteSets, TLC

----------------------------------------------------------------------------
(* Arbitrary-precision naturals                                            *)

Base == 10 * 10 * 10

\* Evaluation order.  Where an operand is used more than once it is bound
\* first:  CHOOSE r \in {e(v) : v \in {x}} : TRUE  is e(x), with x evaluated
\* a single time.

Max(p, q) == IF p > q THEN p ELSE q
Min(p, q) == IF p < q THEN p ELSE q

RECURSIVE NatOfInt(_)
NatOfInt(m) == IF m = 0 THEN << >> ELSE <<m % Base>> \o NatOfInt(m \div Base)

RECURSIVE Strip(_)
Strip(a) == IF a = << >> THEN a
            ELSE IF a[Len(a)] = 0 THEN Strip(SubSeq(a, 1, Len(a) - 1))
            ELSE a

Limb(a, i) == IF i <= Len(a) THEN a[i] ELSE 0

RECURSIVE AddC(_, _, _, _)
AddC(a, b, i, c) ==
  IF i > Len(a) /\ i > Len(b) THEN (IF c = 0 THEN << >> ELSE <<c>>)
  ELSE CHOOSE r \in {<<s % Base>> \o AddC(a, b, i + 1, s \div Base)
                      : s \in {Limb(a, i) + Limb(b, i) + c}} : TRUE

BAdd(a, b) == CHOOSE r \in {AddC(u, v, 1, 0) : u \in {a}, v \in {b}} : TRUE

\* a - b for a >= b
RECURSIVE SubC(_, _, _, _)
SubC(a, b, i, c) ==
  IF i > Len(a) THEN << >>
  ELSE CHOOSE r \in {IF s < 0 THEN <<s + Base>> \o SubC(a, b, i + 1, 1)
                      ELSE <<s>> \o SubC(a, b, i + 1, 0)
                      : s \in {Limb(a, i) - Limb(b, i) - c}} : TRUE

BSub(a, b) ==
  CHOOSE r \in {Strip(w) : w \in {SubC(u, v, 1, 0) : u \in {a}, v \in {b}}} : TRUE

\* -1, 0, 1 as a < b, a = b, a > b
RECURSIVE CmpFrom(_, _, _)
CmpFrom(a, b, i) ==
  IF i = 0 THEN 0
  ELSE IF a[i] < b[i] THEN -1
  ELSE IF a[i] > b[i] THEN 1
  ELSE CmpFrom(a, b, i - 1)

BCmp(a, b) ==
  CHOOSE r \in {IF Len(u) < Len(v) THEN -1
                ELSE IF Len(u) > Len(v) THEN 1
                ELSE CmpFrom(u, v, Len(u)) : u \in {a}, v \in {b}} : TRUE

RECURSIVE ColSum(_, _, _, _, _)
ColSum(a, b, c, i, hi) ==
  IF i > hi THEN 0 ELSE a[i] * b[c + 1 - i] + ColSum(a, b, c, i + 1, hi)

RECURSIVE Carry(_, _, _)
Carry(cols, i, c) ==
  IF i > Len(cols) THEN NatOfInt(c)
  ELSE CHOOSE r \in {<<s % Base>> \o Carry(cols, i + 1, s \div Base)
                      : s \in {cols[i] + c}} : TRUE

\* the column sums of the schoolbook product of two non-zero naturals
Cols(a, b) ==
  [c \in 1..(Len(a) + Len(b) - 1) |->
     ColSum(a, b, c, Max(1, c + 1 - Len(b)), Min(Len(a), c))] \o << >>

BMul(a, b) ==
  CHOOSE r \in {IF u = << >> \/ v = << >> THEN << >>
                ELSE CHOOSE q \in {Carry(cols, 1, 0) : cols \in {Cols(u, v)}} : TRUE
                : u \in {a}, v \in {b}} : TRUE

RECURSIVE BPow10(_)
BPow10(e) == IF e = 0 THEN <<1>> ELSE BMul(<<10>>, BPow10(e - 1))

\* the number of low limbs that are zero in both a and b
RECURSIVE LowZeros(_, _, _)
LowZeros(a, b, i) ==
  IF i < Len(a) /\ i < Len(b) /\ a[i] = 0 /\ b[i] = 0
  THEN LowZeros(a, b, i + 1) ELSE i - 1

----------------------------------------------------------------------------
(* Rationals: [k |-> "q", sg |-> -1 | 0 | 1, n |-> natural, d |-> natural] *)

\* sg * n / d, with the powers of Base common to n and d cancelled
MkRatV(sg, n, d, z) ==
  IF n = << >> \/ sg = 0 THEN [k |-> "q", sg |-> 0, n |-> << >>, d |-> <<1>>]
  ELSE [k |-> "q", sg |-> sg,
        n |-> SubSeq(n, z + 1, Len(n)), d |-> SubSeq(d, z + 1, Len(d))]
MkRat(sg, n, d) ==
  CHOOSE r \in {CHOOSE q \in {MkRatV(s, u, v, z) : z \in {LowZeros(u, v, 1)}} : TRUE
                : s \in {sg}, u \in {n}, v \in {d}} : TRUE

Sign(m) == IF m < 0 THEN -1 ELSE IF m = 0 THEN 0 ELSE 1
AbsInt(m) == IF m < 0 THEN -m ELSE m

\* the integer m
RInt(m) == MkRat(Sign(m), NatOfInt(AbsInt(m)), <<1>>)

\* the decimal literal m * 10^e  (780e-9 is Dec(780, -9))
Dec(m, e) ==
  IF e >= 0 THEN MkRat(Sign(m), BMul(NatOfInt(AbsInt(m)), BPow10(e)), <<1>>)
  ELSE MkRat(Sign(m), NatOfInt(AbsInt(m)), BPow10(-e))

RNeg(x) == [x EXCEPT !.sg = -x.sg]
RAbs(x) == [x EXCEPT !.sg = IF x.sg = 0 THEN 0 ELSE 1]
RMul(x, y) ==
  CHOOSE r \in {MkRat(u.sg * v.sg, BMul(u.n, v.n), BMul(u.d, v.d))
                : u \in {x}, v \in {y}} : TRUE
RDiv(x, y) ==
  CHOOSE r \in {MkRat(u.sg * v.sg, BMul(u.n, v.d), BMul(u.d, v.n))
                : u \in {x}, v \in {y}} : TRUE
RSq(x) == RMul(x, x)

\* sign(s1 * a + s2 * b) and |s1 * a + s2 * b| for naturals a, b
SignedSum(s1, a, s2, b) ==
  IF s1 = 0 THEN <<s2, b>>
  ELSE IF s2 = 0 THEN <<s1, a>>
  ELSE IF s1 = s2 THEN <<s1, BAdd(a, b)>>
  ELSE CHOOSE r \in {IF c = 0 THEN <<0, << >> >>
                      ELSE IF c > 0 THEN <<s1, BSub(a, b)>>
                      ELSE <<s2, BSub(b, a)>> : c \in {BCmp(a, b)}} : TRUE

RAddV(x, y) ==
  IF x.d = y.d
  THEN CHOOSE r \in {MkRat(s[1], s[2], x.d)
                     : s \in {SignedSum(x.sg, x.n, y.sg, y.n)}} : TRUE
  ELSE CHOOSE r \in {MkRat(s[1], s[2], BMul(x.d, y.d))
                     : s \in {SignedSum(x.sg, BMul(x.n, y.d),
                                        y.sg, BMul(y.n, x.d))}} : TRUE
RAdd(x, y) == CHOOSE r \in {RAddV(u, v) : u \in {x}, v \in {y}} : TRUE

RSub(x, y) == RAdd(x, RNeg(y))

\* -1, 0, 1 as x < y, x = y, x > y
RCmpV(x, y) ==
  IF x.sg # y.sg THEN (IF x.sg < y.sg THEN -1 ELSE 1)
  ELSE IF x.sg = 0 THEN 0
  ELSE x.sg * BCmp(BMul(x.n, y.d), BMul(y.n, x.d))
RCmp(x, y) == CHOOSE r \in {RCmpV(u, v) : u \in {x}, v \in {y}} : TRUE

REq(x, y) == RCmp(x, y) = 0
RLe(x, y) == RCmp(x, y) <= 0
RLt(x, y) == RCmp(x, y) < 0

Zero == RInt(0)

----------------------------------------------------------------------------
(* Scalars: a rational, the surd [k |-> "sqrt", r |-> q] (the non-negative *)
(* square root of the rational q >= 0), or NaN.  An operation the scripts  *)
(* never perform (adding two surds, dividing by zero) has no CASE arm.     *)

NaN == [k |-> "nan"]
Surd(q) == [k |-> "sqrt", r |-> q]

\* np.sqrt of a scalar: NaN for a negative argument (numpy warns and goes on)
SSqrt(x) ==
  CASE x.k = "nan" -> NaN
    [] x.k = "q" /\ x.sg < 0 -> NaN
    [] x.k = "q" /\ x.sg >= 0 -> Surd(x)

\* x ** 2
SPow2(x) ==
  CASE x.k = "nan" -> NaN
    [] x.k = "q" -> RSq(x)
    [] x.k = "sqrt" -> x.r

SAdd(x, y) ==
  CASE x.k = "nan" \/ y.k = "nan" -> NaN
    [] x.k = "q" /\ y.k = "q" -> RAdd(x, y)

SMul(x, y) ==
  CASE x.k = "nan" \/ y.k = "nan" -> NaN
    [] x.k = "q" /\ y.k = "q" -> RMul(x, y)
    [] x.k = "q" /\ y.k = "sqrt" /\ x.sg >= 0 -> Surd(RMul(RSq(x), y.r))
    [] x.k = "sqrt" /\ y.k = "q" /\ y.sg >= 0 -> Surd(RMul(x.r, RSq(y)))

SDiv(x, y) ==
  CASE x.k = "nan" \/ y.k = "nan" -> NaN
    [] x.k = "q" /\ y.k = "q" /\ y.sg # 0 -> RDiv(x, y)

\* np.abs
SAbs(x) ==
  CASE x.k = "nan" -> NaN
    [] x.k = "q" -> RAbs(x)
    [] x.k = "sqrt" -> x

\* equality of the values of two scalars; NaN equals nothing
RealEq(x, y) ==
  CASE x.k = "nan" \/ y.k = "nan" -> FALSE
    [] x.k = "q" /\ y.k = "q" -> REq(x, y)
    [] x.k = "sqrt" /\ y.k = "sqrt" -> REq(x.r, y.r)
    [] x.k = "sqrt" /\ y.k = "q" -> y.sg >= 0 /\ REq(x.r, RSq(y))
    [] x.k = "q" /\ y.k = "sqrt" -> x.sg >= 0 /\ REq(y.r, RSq(x))

\* x <= y for two non-NaN scalars
RealLe(x, y) ==
  CASE x.k = "q" /\ y.k = "q" -> RLe(x, y)
    [] x.k = "sqrt" /\ y.k = "sqrt" -> RLe(x.r, y.r)
    [] x.k = "sqrt" /\ y.k = "q" -> y.sg >= 0 /\ RLe(x.r, RSq(y))
    [] x.k = "q" /\ y.k = "sqrt" -> x.sg <= 0 \/ RLe(RSq(x), y.r)

IsNaN(x) == x.k = "nan"
\* a real number >= 0
NonNegReal(x) == (x.k = "q" /\ x.sg >= 0) \/ x.k = "sqrt"

----------------------------------------------------------------------------
(* numpy arrays: [k |-> "arr", v |-> sequence of elements]; a 2-D array is *)
(* an array of rows.  Arithmetic is elementwise, a scalar operand is       *)
(* broadcast over the array.                                               *)

\* (seq \o << >> is seq, evaluated as a tuple)
Arr(seq) == [k |-> "arr", v |-> seq \o << >>]
IsArr(a) == a.k = "arr"
len(a) == Len(a.v)

\* a[i] of an array, the scalar itself when a scalar is broadcast
Elt(a, i) == IF IsArr(a) THEN a.v[i] ELSE a
\* the common length of the operands of an elementwise operation
Size(a, b) ==
  CASE IsArr(a) /\ IsArr(b) /\ len(a) = len(b) -> len(a)
    [] IsArr(a) /\ ~IsArr(b) -> len(a)
    [] ~IsArr(a) /\ IsArr(b) -> len(b)

\* the unary ufuncs and operators of the scripts, on scalars
ufunc1(name, x) ==
  CASE name = "sqrt" -> SSqrt(x)
    [] name = "abs" -> SAbs(x)
    [] name = "pow2" -> SPow2(x)

\* the binary ufuncs and operators of the scripts, on scalars
ufunc2(name, x, y) ==
  CASE name = "add" -> SAdd(x, y)
    [] name = "mul" -> SMul(x, y)
    [] name = "div" -> SDiv(x, y)

\* a unary ufunc: on every element
RECURSIVE Map(_, _)
Map(name, a) ==
  CHOOSE r \in {IF IsArr(u) THEN Arr([i \in 1..len(u) |-> Map(name, u.v[i])])
                ELSE ufunc1(name, u) : u \in {a}} : TRUE

\* a binary ufunc: on the elements pairwise, with broadcasting
RECURSIVE Zip(_, _, _)
Zip(name, a, b) ==
  CHOOSE r \in {IF IsArr(u) \/ IsArr(v)
                THEN Arr([i \in 1..Size(u, v) |-> Zip(name, Elt(u, i), Elt(v, i))])
                ELSE ufunc2(name, u, v) : u \in {a}, v \in {b}} : TRUE

np_sqrt(a) == Map("sqrt", a)
np_abs(a) == Map("abs", a)
Pow2(a) == Map("pow2", a)
Add(a, b) == Zip("add", a, b)
Mul(a, b) == Zip("mul", a, b)
Div(a, b) == Zip("div", a, b)

\* [x] * n : a Python list of n copies of x
Repeat(x, n) == Arr([i \in 1..n |-> x])

\* np.linspace(start, stop, num): start + i * (stop - start) / (num - 1)
np_linspace(start, stop, num) ==
  LET step == RDiv(RSub(stop, start), RInt(num - 1))
  IN  Arr([i \in 1..num |-> RAdd(start, RMul(RInt(i - 1), step))])

\* np.meshgrid(x, y): X[j][i] = x[i], Y[j][i] = y[j], both of shape (len(y), len(x))
np_meshgrid(x, y) ==
  [X |-> Arr([j \in 1..len(y) |-> Arr([i \in 1..len(x) |-> x.v[i]])]),
   Y |-> Arr([j \in 1..len(y) |-> Arr([i \in 1..len(x) |-> y.v[j]])])]

\* round(x) of a finite x >= 0 with x^2 = fourN / (4 * d): the nearest
\* integer, a tie going to the even one.
\* HalfCmp is -1, 0, 1 as x is below, at, above m + 1/2.
HalfCmp(fourN, d, m) ==
  BCmp(fourN, BMul(BMul(NatOfInt(2 * m + 1), NatOfInt(2 * m + 1)), d))

\* some m with x <= m + 1/2
RECURSIVE RoundBound(_, _, _)
RoundBound(fourN, d, m) ==
  IF HalfCmp(fourN, d, m) <= 0 THEN m ELSE RoundBound(fourN, d, 2 * m + 1)

\* the least m in lo..hi with x <= m + 1/2
RECURSIVE RoundLeast(_, _, _, _)
RoundLeast(fourN, d, lo, hi) ==
  IF lo = hi THEN lo
  ELSE CHOOSE r \in {IF HalfCmp(fourN, d, mid) <= 0
                     THEN RoundLeast(fourN, d, lo, mid)
                     ELSE RoundLeast(fourN, d, mid + 1, hi)
                     : mid \in {(lo + hi) \div 2}} : TRUE

RoundNat(fourN, d) ==
  CHOOSE r \in UNION
    {{IF HalfCmp(u, v, m) = 0 /\ m % 2 = 1 THEN m + 1 ELSE m
      : m \in {RoundLeast(u, v, 0, RoundBound(u, v, 0))}}
     : u \in {fourN}, v \in {d}} : TRUE
\* round(x) with one argument.  np.float64.__round__ returns a Python int:
\* it raises ValueError on NaN ("cannot convert float NaN to integer").
round(x) ==
  CHOOSE r \in
    {CASE u.k = "nan" -> [k |-> "ValueError"]
       [] u.k = "sqrt" -> [k |-> "int", v |-> RoundNat(BMul(<<4>>, u.r.n), u.r.d)]
       [] u.k = "q" /\ u.sg >= 0 ->
            [k |-> "int",
             v |-> RoundNat(BMul(<<4>>, BMul(u.n, u.n)), BMul(u.d, u.d))]
     : u \in {x}} : TRUE

----------------------------------------------------------------------------
(* Module-level state of the scripts.  Every script samples each axis at   *)
(* 100 points; the model samples the same axis, end points included, at    *)
(* NumSamples points.                                                      *)

NumSamples == 3

\* np.pi, to the sixteen digits of its float64 value
np_pi == RAdd(Dec(3141592, -6), Dec(653589793, -15))

TWO == RInt(2)
e3 == Dec(1, 3)
e6 == Dec(1, 6)

\* multi_dash.py
multi_dash_globals ==
  LET lambda0 == Dec(780, -9)
      k0 == Div(Mul(TWO, np_pi), lambda0)
      kxmin == Dec(-70, 3)
      kxmax == Dec(70, 3)
      domega_min == RInt(-150)
      domega_max == RInt(150)
      kx_range == np_linspace(kxmin, kxmax, NumSamples)
      domega_range == np_linspace(domega_min, domega_max, NumSamples)
      m1 == np_meshgrid(kx_range, domega_range)
      kymin == Dec(-70, 3)
      kymax == Dec(70, 3)
      kx_range_ky == np_linspace(kxmin, kxmax, NumSamples)
      ky_range == np_linspace(kymin, kymax, NumSamples)
      m2 == np_meshgrid(kx_range_ky, ky_range)
  IN  [lambda0 |-> lambda0, k0 |-> k0, kxmin |-> kxmin, kxmax |-> kxmax,
       domega_min |-> domega_min, domega_max |-> domega_max,
       kx_range |-> kx_range, domega_range |-> domega_range,
       KX |-> m1.X, DOMEGA |-> m1.Y,
       kymin |-> kymin, kymax |-> kymax,
       kx_range_ky |-> kx_range_ky, ky_range |-> ky_range,
       KX_ky |-> m2.X, KY |-> m2.Y]

\* dash-app.py
dash_app_globals ==
  LET lambda0 == Dec(780, -9)
      k0 == Div(Mul(TWO, np_pi), lambda0)
      kx_range == np_linspace(Dec(-80, 3), Dec(80, 3), NumSamples)
      ky_range == np_linspace(Dec(-80, 3), Dec(80, 3), NumSamples)
      m == np_meshgrid(kx_range, ky_range)
  IN  [lambda0 |-> lambda0, k0 |-> k0, Delta_n_default_factor |-> RInt(1),
       kx_range |-> kx_range, ky_range |-> ky_range, KX |-> m.X, KY |-> m.Y]

\* dash_app-omega.py
dash_app_omega_globals ==
  LET lambda0 == Dec(780, -9)
      k0 == Div(Mul(TWO, np_pi), lambda0)
      kxmin == Dec(-70, 3)
      kxmax == Dec(70, 3)
      domega_min == RInt(-150)
      domega_max == RInt(150)
      kx_range == np_linspace(kxmin, kxmax, NumSamples)
      domega_range == np_linspace(domega_min, domega_max, NumSamples)
      m == np_meshgrid(kx_range, domega_range)
  IN  [lambda0 |-> lambda0, k0 |-> k0, D0 |-> Dec(10, -15),
       Delta_n_default_factor |-> RInt(1),
       kxmin |-> kxmin, kxmax |-> kxmax,
       domega_min |-> domega_min, domega_max |-> domega_max,
       kx_range |-> kx_range, domega_range |-> domega_range,
       KX |-> m.X, DOMEGA |-> m.Y]

\* shiny-app.py
shiny_app_globals ==
  LET lambda0 == Dec(800, -9)
      k0 == Div(Mul(TWO, np_pi), lambda0)
      kx_range == np_linspace(Dec(-80, 3), Dec(80, 3), NumSamples)
      ky_range == np_linspace(Dec(-80, 3), Dec(80, 3), NumSamples)
      m == np_meshgrid(kx_range, ky_range)
  IN  [lambda0 |-> lambda0, k0 |-> k0, n2 |-> Dec(1, -14), I |-> Dec(1, 4),
       Delta_n_default |-> Dec(1, -5),
       kx_range |-> kx_range, ky_range |-> ky_range, KX |-> m.X, KY |-> m.Y]

Scripts == {"multi_dash", "dash-app", "dash_app-omega", "shiny-app"}

\* the module namespace of a script once its top-level code has run
Globals(scr) ==
  CASE scr = "multi_dash" -> multi_dash_globals
    [] scr = "dash-app" -> dash_app_globals
    [] scr = "dash_app-omega" -> dash_app_omega_globals
    [] scr = "shiny-app" -> shiny_app_globals

----------------------------------------------------------------------------
(* The dispersion expressions, one definition per place of the source.     *)
(* Each is written over numpy values: its arguments may be 2-D arrays,     *)
(* 1-D arrays or scalars.                                                  *)

\* multi_dash.py update_omega_plot: the surface with the last term subtracted
omega_OmegaB_MinusLast(KX, DOMEGA, Delta_n, D0, k0) ==
  LET K == np_sqrt(Pow2(KX))
  IN  np_sqrt(Add(Add(
        Pow2(Add(Div(Pow2(K), Mul(TWO, k0)), Mul(D0, Pow2(Mul(DOMEGA, e6))))),
        Mul(Pow2(K), Delta_n)),
        Mul(RInt(-1), Mul(Mul(Mul(Pow2(Mul(DOMEGA, e6)), D0), k0), Delta_n))))

\* multi_dash.py update_omega_plot: the surface
omega_OmegaB(KX, DOMEGA, Delta_n, D0, k0) ==
  LET K == np_sqrt(Pow2(KX))
  IN  np_sqrt(Add(Add(
        Pow2(Add(Div(Pow2(K), Mul(TWO, k0)), Mul(D0, Pow2(Mul(DOMEGA, e6))))),
        Mul(Pow2(K), Delta_n)),
        Mul(Mul(Mul(Pow2(Mul(DOMEGA, e6)), D0), k0), Delta_n)))

\* multi_dash.py update_omega_plot, cut_mode == 'fix_kx', with K_cut * 2 for
\* K_cut ** 2 in the middle term
omega_fix_kx_cut_Times2(kx_fixed, domega_cut, Delta_n, D0, k0) ==
  LET K_cut == kx_fixed
  IN  [OmegaB_cut |-> np_sqrt(Add(Add(
         Pow2(Add(Div(Pow2(K_cut), Mul(TWO, k0)), Mul(D0, Pow2(Mul(domega_cut, e6))))),
         Mul(Mul(K_cut, TWO), Delta_n)),
         Mul(Mul(Mul(Pow2(Mul(domega_cut, e6)), D0), k0), Delta_n))),
       OmegaB_free |-> Add(Div(Pow2(K_cut), Mul(TWO, k0)),
                           Mul(D0, Pow2(Mul(domega_cut, e6))))]

\* multi_dash.py update_omega_plot, cut_mode == 'fix_kx'
omega_fix_kx_cut(kx_fixed, domega_cut, Delta_n, D0, k0) ==
  LET K_cut == kx_fixed
  IN  [OmegaB_cut |-> np_sqrt(Add(Add(
         Pow2(Add(Div(Pow2(K_cut), Mul(TWO, k0)), Mul(D0, Pow2(Mul(domega_cut, e6))))),
         Mul(Pow2(K_cut), Delta_n)),
         Mul(Mul(Mul(Pow2(Mul(domega_cut, e6)), D0), k0), Delta_n))),
       OmegaB_free |-> Add(Div(Pow2(K_cut), Mul(TWO, k0)),
                           Mul(D0, Pow2(Mul(domega_cut, e6))))]

\* multi_dash.py update_omega_plot, the other cut mode, with the last term
\* taking domega_fixed in MHz
omega_fix_domega_cut_MHz(domega_fixed, kx_cut, Delta_n, D0, k0) ==
  LET K_cut == np_abs(kx_cut)
  IN  [OmegaB_cut |-> np_sqrt(Add(Add(
         Pow2(Add(Div(Pow2(K_cut), Mul(TWO, k0)), Mul(D0, Pow2(Mul(domega_fixed, e6))))),
         Mul(Pow2(K_cut), Delta_n)),
         Mul(Mul(Mul(Pow2(domega_fixed), D0), k0), Delta_n))),
       OmegaB_free |-> Add(Div(Pow2(K_cut), Mul(TWO, k0)),
                           Mul(D0, Pow2(Mul(domega_fixed, e6))))]

\* multi_dash.py update_omega_plot, the other cut mode
omega_fix_domega_cut(domega_fixed, kx_cut, Delta_n, D0, k0) ==
  LET K_cut == np_abs(kx_cut)
  IN  [OmegaB_cut |-> np_sqrt(Add(Add(
         Pow2(Add(Div(Pow2(K_cut), Mul(TWO, k0)), Mul(D0, Pow2(Mul(domega_fixed, e6))))),
         Mul(Pow2(K_cut), Delta_n)),
         Mul(Mul(Mul(Pow2(Mul(domega_fixed, e6)), D0), k0), Delta_n))),
       OmegaB_free |-> Add(Div(Pow2(K_cut), Mul(TWO, k0)),
                           Mul(D0, Pow2(Mul(domega_fixed, e6))))]

\* multi_dash.py update_ky_plot: the surface
ky_OmegaB(KX_ky, KY, Delta_n, k0) ==
  LET K == np_sqrt(Add(Pow2(KX_ky), Pow2(KY)))
  IN  np_sqrt(Add(Pow2(Div(Pow2(K), Mul(TWO, k0))), Mul(Pow2(K), Delta_n)))

\* multi_dash.py update_ky_plot: the cut with kx_fixed for kx_fixed ** 2
ky_cut_at_KxUnsquared(kx_fixed, ky_cut, Delta_n, k0) ==
  LET K_cut == np_sqrt(Add(kx_fixed, Pow2(ky_cut)))
  IN  [OmegaB_cut |-> np_sqrt(Add(Pow2(Div(Pow2(K_cut), Mul(TWO, k0))),
                                  Mul(Pow2(K_cut), Delta_n))),
       OmegaB_free |-> Div(Pow2(K_cut), Mul(TWO, k0))]

\* multi_dash.py update_ky_plot: the cut at fixed kx
ky_cut_at(kx_fixed, ky_cut, Delta_n, k0) ==
  LET K_cut == np_sqrt(Add(Pow2(kx_fixed), Pow2(ky_cut)))
  IN  [OmegaB_cut |-> np_sqrt(Add(Pow2(Div(Pow2(K_cut), Mul(TWO, k0))),
                                  Mul(Pow2(K_cut), Delta_n))),
       OmegaB_free |-> Div(Pow2(K_cut), Mul(TWO, k0))]

\* dash-app.py update_plot with K taken from kx alone, as the (kx, domega)
\* scripts take it
dash_OmegaB_KxOnly(KX, KY, Delta_n, k0) ==
  LET K == np_sqrt(Pow2(KX))
  IN  np_sqrt(Add(Pow2(Div(Pow2(K), Mul(TWO, k0))), Mul(Pow2(K), Delta_n)))

\* dash-app.py update_plot: the surface
dash_OmegaB(KX, KY, Delta_n, k0) ==
  LET K == np_sqrt(Add(Pow2(KX), Pow2(KY)))
  IN  np_sqrt(Add(Pow2(Div(Pow2(K), Mul(TWO, k0))), Mul(Pow2(K), Delta_n)))

\* dash-app.py update_plot: the cut, with the free reference K_cut^2 / k0
dash_cut_at_FreeNoHalf(kx_fixed, ky_cut, Delta_n, k0) ==
  LET K_cut == np_sqrt(Add(Pow2(kx_fixed), Pow2(ky_cut)))
  IN  [OmegaB_cut |-> np_sqrt(Add(Pow2(Div(Pow2(K_cut), Mul(TWO, k0))),
                                  Mul(Pow2(K_cut), Delta_n))),
       OmegaB_free |-> Div(Pow2(K_cut), k0)]

\* dash-app.py update_plot: the cut at fixed kx
dash_cut_at(kx_fixed, ky_cut, Delta_n, k0) ==
  LET K_cut == np_sqrt(Add(Pow2(kx_fixed), Pow2(ky_cut)))
  IN  [OmegaB_cut |-> np_sqrt(Add(Pow2(Div(Pow2(K_cut), Mul(TWO, k0))),
                                  Mul(Pow2(K_cut), Delta_n))),
       OmegaB_free |-> Div(Pow2(K_cut), Mul(TWO, k0))]

\* dash_app-omega.py update_plot: the surface
dashomega_OmegaB(KX, DOMEGA, Delta_n, D0, k0) ==
  LET K == np_sqrt(Pow2(KX))
  IN  np_sqrt(Add(Add(
        Pow2(Add(Div(Pow2(K), Mul(TWO, k0)), Mul(D0, Pow2(Mul(DOMEGA, e6))))),
        Mul(Pow2(K), Delta_n)),
        Mul(Mul(Mul(Pow2(Mul(DOMEGA, e6)), D0), k0), Delta_n)))

\* dash_app-omega.py update_plot: the cut with K_cut ** 2 * Delta_n subtracted
dashomega_cut_at_MinusInteraction(kx_fixed, domega_cut, Delta_n, D0, k0) ==
  LET K_cut == np_sqrt(Pow2(kx_fixed))
  IN  [OmegaB_cut |-> np_sqrt(Add(Add(
         Pow2(Add(Div(Pow2(K_cut), Mul(TWO, k0)), Mul(D0, Pow2(Mul(domega_cut, e6))))),
         Mul(RInt(-1), Mul(Pow2(K_cut), Delta_n))),
         Mul(Mul(Mul(Pow2(Mul(domega_cut, e6)), D0), k0), Delta_n))),
       OmegaB_free |-> Add(Div(Pow2(K_cut), Mul(TWO, k0)),
                           Mul(D0, Pow2(Mul(domega_cut, e6))))]

\* dash_app-omega.py update_plot: the cut at fixed kx
dashomega_cut_at(kx_fixed, domega_cut, Delta_n, D0, k0) ==
  LET K_cut == np_sqrt(Pow2(kx_fixed))
  IN  [OmegaB_cut |-> np_sqrt(Add(Add(
         Pow2(Add(Div(Pow2(K_cut), Mul(TWO, k0)), Mul(D0, Pow2(Mul(domega_cut, e6))))),
         Mul(Pow2(K_cut), Delta_n)),
         Mul(Mul(Mul(Pow2(Mul(domega_cut, e6)), D0), k0), Delta_n))),
       OmegaB_free |-> Add(Div(Pow2(K_cut), Mul(TWO, k0)),
                           Mul(D0, Pow2(Mul(domega_cut, e6))))]

\* shiny-app.py dispersion_plot: the surface with KY for KY ** 2
shiny_OmegaB_KyUnsquared(KX, KY, Delta_n, k0) ==
  LET K == np_sqrt(Add(Pow2(KX), KY))
  IN  np_sqrt(Add(Pow2(Div(Pow2(K), Mul(TWO, k0))), Mul(Pow2(K), Delta_n)))

\* shiny-app.py dispersion_plot: the surface
shiny_OmegaB(KX, KY, Delta_n, k0) ==
  LET K == np_sqrt(Add(Pow2(KX), Pow2(KY)))
  IN  np_sqrt(Add(Pow2(Div(Pow2(K), Mul(TWO, k0))), Mul(Pow2(K), Delta_n)))

\* shiny-app.py dispersion_plot: the cut at fixed kx (no free reference)
shiny_cut_at(kx_fixed, ky_cut, Delta_n, k0) ==
  LET K_cut == np_sqrt(Add(Pow2(kx_fixed), Pow2(ky_cut)))
  IN  [OmegaB_cut |-> np_sqrt(Add(Pow2(Div(Pow2(K_cut), Mul(TWO, k0))),
                                  Mul(Pow2(K_cut), Delta_n)))]

\* fluid1.py: the surface with K ** 2 + Delta_n for K ** 2 * Delta_n
fluid1_OmegaB_PlusDeltaN(KX, KY, Delta_n, k0) ==
  LET K == np_sqrt(Add(Pow2(KX), Pow2(KY)))
  IN  np_sqrt(Add(Pow2(Div(Pow2(K), Mul(TWO, k0))), Add(Pow2(K), Delta_n)))

\* fluid1.py: the surface
fluid1_OmegaB(KX, KY, Delta_n, k0) ==
  LET K == np_sqrt(Add(Pow2(KX), Pow2(KY)))
  IN  np_sqrt(Add(Pow2(Div(Pow2(K), Mul(TWO, k0))), Mul(Pow2(K), Delta_n)))

\* fluid1.py: the cut at fixed kx
fluid1_cut_at(kx_fixed, ky_cut, Delta_n, k0) ==
  LET K_cut == np_sqrt(Add(Pow2(kx_fixed), Pow2(ky_cut)))
  IN  [OmegaB_cut |-> np_sqrt(Add(Pow2(Div(Pow2(K_cut), Mul(TWO, k0))),
                                  Mul(Pow2(K_cut), Delta_n))),
       OmegaB_free |-> Div(Pow2(K_cut), Mul(TWO, k0))]

\* k_xi with sqrt(1e-3 - Delta_n) for sqrt(Delta_n)
k_xi_of_Decreasing(k0, Delta_n) ==
  round(Mul(Mul(k0, np_sqrt(Add(Dec(1, -3), Mul(RInt(-1), Delta_n)))), Dec(1, -3)))

\* k_xi = round(k0 * np.sqrt(Delta_n) * 1e-3)
k_xi_of(k0, Delta_n) ==
  round(Mul(Mul(k0, np_sqrt(Delta_n)), Dec(1, -3)))

----------------------------------------------------------------------------
(* The callbacks.  A callback applied in the module namespace g returns    *)
(* [ret |-> what the call returns or raises, globals |-> the namespace     *)
(* after the call].                                                       *)

None == [k |-> "None"]

\* a callback that rebinds the module-level k0 before it returns
ReturnRebindingK0(ret, g) ==
  [ret |-> ret, globals |-> [g EXCEPT !.k0 = Mul(TWO, g.k0)]]

\* A callback ends by returning ret or by raising it.  No callback assigns to
\* a module-level name (none has a global statement, none mutates an array in
\* place), so the namespace g it ran in is the namespace it leaves.
Return(ret, g) == [ret |-> ret, globals |-> g]

Raise(e) == [k |-> "raise", exc |-> e]

\* update_omega_plot's cut with the frequency axis of the fix_kx cut starting at
\* the value of the domega slider
omega_cut_FromDomegaSlider(g, cut_mode, kx_slider_value, domega_slider_value, Delta_n, D0) ==
  IF cut_mode = "fix_kx"
  THEN CHOOSE r \in
         {[OmegaB_cut |-> c.OmegaB_cut, OmegaB_free |-> c.OmegaB_free,
           cut_3d_x |-> Repeat(Div(kx_fixed, e3), len(domega_cut)),
           cut_3d_y |-> domega_cut,
           cut_2d_x |-> domega_cut,
           xaxis_title |-> "Frequency Shift (MHz)"]
          : c \in {omega_fix_kx_cut(kx_fixed, domega_cut, Delta_n, D0, g.k0)
                   : kx_fixed \in {Mul(kx_slider_value, e3)},
                     domega_cut \in {np_linspace(domega_slider_value, g.domega_max,
                                                 NumSamples)}},
            kx_fixed \in {Mul(kx_slider_value, e3)},
            domega_cut \in {np_linspace(domega_slider_value, g.domega_max, NumSamples)}}
         : TRUE
  ELSE CHOOSE r \in
         {[OmegaB_cut |-> c.OmegaB_cut, OmegaB_free |-> c.OmegaB_free,
           cut_3d_x |-> x_mm,
           cut_3d_y |-> Repeat(domega_fixed, len(kx_cut)),
           cut_2d_x |-> x_mm,
           xaxis_title |-> "Wavevector kx (mm^-1)"]
          : c \in {omega_fix_domega_cut(domega_fixed, kx_cut, Delta_n, D0, g.k0)
                   : domega_fixed \in {domega_slider_value},
                     kx_cut \in {np_linspace(g.kxmin, g.kxmax, NumSamples)}},
            domega_fixed \in {domega_slider_value},
            kx_cut \in {np_linspace(g.kxmin, g.kxmax, NumSamples)},
            x_mm \in {Div(np_linspace(g.kxmin, g.kxmax, NumSamples), e3)}}
         : TRUE

\* multi_dash.py update_omega_plot: what the two branches of cut_mode leave
\* in the local variables
omega_cut(g, cut_mode, kx_slider_value, domega_slider_value, Delta_n, D0) ==
  IF cut_mode = "fix_kx"
  THEN CHOOSE r \in
         {[OmegaB_cut |-> c.OmegaB_cut, OmegaB_free |-> c.OmegaB_free,
           cut_3d_x |-> Repeat(Div(kx_fixed, e3), len(domega_cut)),
           cut_3d_y |-> domega_cut,
           cut_2d_x |-> domega_cut,
           xaxis_title |-> "Frequency Shift (MHz)"]
          : c \in {omega_fix_kx_cut(kx_fixed, domega_cut, Delta_n, D0, g.k0)
                   : kx_fixed \in {Mul(kx_slider_value, e3)},
                     domega_cut \in {np_linspace(g.domega_min, g.domega_max,
                                                 NumSamples)}},
            kx_fixed \in {Mul(kx_slider_value, e3)},
            domega_cut \in {np_linspace(g.domega_min, g.domega_max, NumSamples)}}
         : TRUE
  ELSE CHOOSE r \in
         {[OmegaB_cut |-> c.OmegaB_cut, OmegaB_free |-> c.OmegaB_free,
           cut_3d_x |-> x_mm,
           cut_3d_y |-> Repeat(domega_fixed, len(kx_cut)),
           cut_2d_x |-> x_mm,
           xaxis_title |-> "Wavevector kx (mm^-1)"]
          : c \in {omega_fix_domega_cut(domega_fixed, kx_cut, Delta_n, D0, g.k0)
                   : domega_fixed \in {domega_slider_value},
                     kx_cut \in {np_linspace(g.kxmin, g.kxmax, NumSamples)}},
            domega_fixed \in {domega_slider_value},
            kx_cut \in {np_linspace(g.kxmin, g.kxmax, NumSamples)},
            x_mm \in {Div(np_linspace(g.kxmin, g.kxmax, NumSamples), e3)}}
         : TRUE

\* multi_dash.py update_omega_plot: the figure, or the exception of round
omega_return(g, OmegaB, cut, k_xi) ==
  IF k_xi.k = "ValueError" THEN Raise("ValueError")
  ELSE [k |-> "fig",
        surface |-> [x |-> Div(g.KX, e3), y |-> g.DOMEGA, z |-> OmegaB],
        cut |-> [x |-> cut.cut_3d_x, y |-> cut.cut_3d_y, z |-> cut.OmegaB_cut],
        interacting |-> [x |-> cut.cut_2d_x, y |-> cut.OmegaB_cut],
        free |-> [x |-> cut.cut_2d_x, y |-> cut.OmegaB_free],
        k_xi |-> k_xi,
        xaxis_title |-> cut.xaxis_title]

\* multi_dash.py update_omega_plot
update_omega_plot(g, delta_n_slider_value, gvd_slider_value, cut_mode, kx_slider_value, domega_slider_value) ==
  CHOOSE r \in UNION
    {{Return(omega_return(g, OmegaB, cut, k_xi), g)
      : OmegaB \in {omega_OmegaB(g.KX, g.DOMEGA, Delta_n, D0, g.k0)},
        cut \in {omega_cut(g, cut_mode, kx_slider_value, domega_slider_value,
                           Delta_n, D0)},
        k_xi \in {k_xi_of(g.k0, Delta_n)}}
     : Delta_n \in {Mul(delta_n_slider_value, Dec(1, -5))},
       D0 \in {Mul(gvd_slider_value, Dec(1, -15))}} : TRUE

\* the figure of the callbacks that cut at fixed kx, or the exception of round
cut_return(surface, cut_x, cut_y, c, k_xi, xaxis_title) ==
  IF k_xi.k = "ValueError" THEN Raise("ValueError")
  ELSE [k |-> "fig",
        surface |-> surface,
        cut |-> [x |-> cut_x, y |-> cut_y, z |-> c.OmegaB_cut],
        interacting |-> [x |-> cut_y, y |-> c.OmegaB_cut],
        free |-> [x |-> cut_y, y |-> c.OmegaB_free],
        k_xi |-> k_xi,
        xaxis_title |-> xaxis_title]

\* multi_dash.py update_ky_plot
update_ky_plot(g, delta_n_slider_value, kx_fixed_slider_value) ==
  CHOOSE r \in UNION
    {{Return(cut_return([x |-> Div(g.KX_ky, e3), y |-> Div(g.KY, e3), z |-> OmegaB],
                          Repeat(Div(kx_fixed, e3), len(ky_cut)), y_mm, c, k_xi,
                          "Wavevector k_y (mm^-1)"), g)
      : OmegaB \in {ky_OmegaB(g.KX_ky, g.KY, Delta_n, g.k0)},
        c \in {ky_cut_at(kx_fixed, ky_cut, Delta_n, g.k0)},
        k_xi \in {k_xi_of(g.k0, Delta_n)},
        y_mm \in {Div(ky_cut, e3)}}
     : Delta_n \in {Mul(delta_n_slider_value, Dec(1, -5))},
       kx_fixed \in {Mul(kx_fixed_slider_value, e3)},
       ky_cut \in {np_linspace(g.kymin, g.kymax, NumSamples)}} : TRUE

\* dash-app.py update_plot: the kx slider value is used as it comes
update_plot(g, delta_n_slider_value, kx_fixed) ==
  CHOOSE r \in UNION
    {{Return(cut_return([x |-> Div(g.KX, e3), y |-> Div(g.KY, e3), z |-> OmegaB],
                          Repeat(Div(kx_fixed, e3), len(ky_cut)), y_mm, c, k_xi,
                          "Wavevector k_y (mm^-1)"), g)
      : OmegaB \in {dash_OmegaB(g.KX, g.KY, Delta_n, g.k0)},
        c \in {dash_cut_at(kx_fixed, ky_cut, Delta_n, g.k0)},
        k_xi \in {k_xi_of(g.k0, Delta_n)},
        y_mm \in {Div(ky_cut, e3)}}
     : Delta_n \in {Mul(delta_n_slider_value, Dec(1, -5))},
       ky_cut \in {np_linspace(Dec(-80, 3), Dec(80, 3), NumSamples)}} : TRUE

\* dash_app-omega.py update_plot with the kx slider value used as it comes,
\* as dash-app.py uses it
update_plot_omega_KxUnscaled(g, delta_n_slider_value, kx_fixed_slider_value) ==
  CHOOSE r \in UNION
    {{Return(cut_return([x |-> Div(g.KX, e3), y |-> g.DOMEGA, z |-> OmegaB],
                          Repeat(Div(kx_fixed, e3), len(domega_cut)), domega_cut,
                          c, k_xi, "Frequency Shift (MHz)"), g)
      : OmegaB \in {dashomega_OmegaB(g.KX, g.DOMEGA, Delta_n, g.D0, g.k0)},
        c \in {dashomega_cut_at(kx_fixed, domega_cut, Delta_n, g.D0, g.k0)},
        k_xi \in {k_xi_of(g.k0, Delta_n)}}
     : Delta_n \in {Mul(delta_n_slider_value, Dec(1, -5))},
       kx_fixed \in {kx_fixed_slider_value},
       domega_cut \in {np_linspace(g.domega_min, g.domega_max, NumSamples)}}
    : TRUE

\* dash_app-omega.py update_plot: D0 is a module constant
update_plot_omega(g, delta_n_slider_value, kx_fixed_slider_value) ==
  CHOOSE r \in UNION
    {{Return(cut_return([x |-> Div(g.KX, e3), y |-> g.DOMEGA, z |-> OmegaB],
                          Repeat(Div(kx_fixed, e3), len(domega_cut)), domega_cut,
                          c, k_xi, "Frequency Shift (MHz)"), g)
      : OmegaB \in {dashomega_OmegaB(g.KX, g.DOMEGA, Delta_n, g.D0, g.k0)},
        c \in {dashomega_cut_at(kx_fixed, domega_cut, Delta_n, g.D0, g.k0)},
        k_xi \in {k_xi_of(g.k0, Delta_n)}}
     : Delta_n \in {Mul(delta_n_slider_value, Dec(1, -5))},
       kx_fixed \in {Mul(kx_fixed_slider_value, e3)},
       domega_cut \in {np_linspace(g.domega_min, g.domega_max, NumSamples)}}
    : TRUE

\* shiny-app.py dispersion_plot: the figure, which has no free trace, or the
\* exception of round
shiny_return(g, OmegaB, kx_fixed, ky_cut, c, k_xi) ==
  IF k_xi.k = "ValueError" THEN Raise("ValueError")
  ELSE [k |-> "fig",
        surface |-> [x |-> Div(g.KX, e3), y |-> Div(g.KY, e3), z |-> OmegaB],
        cut |-> [x |-> Repeat(Div(kx_fixed, e3), len(ky_cut)),
                 y |-> Div(ky_cut, e3), z |-> c.OmegaB_cut],
        k_xi |-> k_xi]

\* shiny-app.py dispersion_plot: Delta_n is the slider value itself
dispersion_plot(g, delta_n, kx_fixed_input) ==
  CHOOSE r \in UNION
    {{Return(shiny_return(g, OmegaB, kx_fixed, ky_cut, c, k_xi), g)
      : OmegaB \in {shiny_OmegaB(g.KX, g.KY, Delta_n, g.k0)},
        c \in {shiny_cut_at(kx_fixed, ky_cut, Delta_n, g.k0)},
        k_xi \in {k_xi_of(g.k0, Delta_n)}}
     : Delta_n \in {delta_n},
       kx_fixed \in {Mul(kx_fixed_input, e3)},
       ky_cut \in {np_linspace(Dec(-80, 3), Dec(80, 3), NumSamples)}} : TRUE

\* multi_dash.py display_page: the layout shown for a pathname
display_page(pathname) ==
  IF pathname = "/omega" THEN "omega_layout"
  ELSE IF pathname = "/ky" THEN "ky_layout"
  ELSE "index_page"

----------------------------------------------------------------------------
(* The controls.  Each control is given some values of its declared range, *)
(* its default among them, and values outside the range: a callback is an  *)
(* HTTP endpoint and is called with whatever value the request carries.    *)

\* delta-n sliders of the Dash scripts: min 0.1, max 10, value 1
DeltaNSlider == {RInt(-1), RInt(0), RInt(1), RInt(10)}
DeltaNSliderInRange(v) == RLe(Dec(1, -1), v) /\ RLe(v, RInt(10))
\* gvd-slider-omega: min 1, max 100, value 10
GvdSlider == {RInt(10), RInt(100)}
\* cut-mode-radio: 'fix_kx' (the default), 'fix_domega'; any other value
\* takes the else branch
CutModes == {"fix_kx", "fix_domega", "other"}
\* kx sliders in mm^-1: min 0, max 30, value 10
KxSlider == {RInt(10), RInt(30)}
\* domega-slider-omega: min 0, max 100, value 0
DomegaSlider == {RInt(0), RInt(100)}
\* dash-app.py kx-slider: min 0, max 80000, step 5000, value 10000
KxSliderDash == {Dec(10, 3), Dec(80, 3)}
\* shiny-app.py delta_n: min 1e-6, max 1e-4, value 1e-5
DeltaNShiny == {Dec(-1, -5), RInt(0), Dec(1, -5), Dec(1, -4)}
DeltaNShinyInRange(v) == RLe(Dec(1, -6), v) /\ RLe(v, Dec(1, -4))
\* shiny-app.py kx_fixed: min -80, max 80, step 5, value 10
KxShiny == {RInt(-80), RInt(-10), RInt(10)}

Pathnames == {"/", "/omega", "/ky"}

OmegaInputs == [delta_n : DeltaNSlider, gvd : GvdSlider, cut_mode : CutModes,
                kx : KxSlider, domega : DomegaSlider]
KyInputs == [delta_n : DeltaNSlider, kx : KxSlider]
DashInputs == [delta_n : DeltaNSlider, kx : KxSliderDash]
DashOmegaInputs == [delta_n : DeltaNSlider, kx : KxSlider]
ShinyInputs == [delta_n : DeltaNShiny, kx : KxShiny]


\* multi_dash.py omega_layout: the style the layout gives kx-slider-div and
\* the one it gives domega-slider-div
kx_slider_div_style == [width |-> "25%", display |-> "inline-block", padding |-> "20px"]
domega_slider_div_style == [width |-> "10%", display |-> "inline-block", padding |-> "20px"]

\* update_slider_visibility testing for 'fix_domega' and showing the kx slider
\* otherwise
update_slider_visibility_TestsDomega(cut_mode) ==
  IF cut_mode = "fix_domega"
  THEN <<[display |-> "none"],
         [width |-> "25%", display |-> "inline-block", padding |-> "20px"]>>
  ELSE <<[width |-> "25%", display |-> "inline-block", padding |-> "20px"],
         [display |-> "none"]>>

\* multi_dash.py update_slider_visibility: the styles of kx-slider-div and of
\* domega-slider-div
update_slider_visibility(cut_mode) ==
  IF cut_mode = "fix_kx"
  THEN <<[width |-> "25%", display |-> "inline-block", padding |-> "20px"],
         [display |-> "none"]>>
  ELSE <<[display |-> "none"],
         [width |-> "25%", display |-> "inline-block", padding |-> "20px"]>>
\* the values the layouts give their controls
omega_layout_values ==
  [delta_n |-> RInt(1), gvd |-> RInt(10), cut_mode |-> "fix_kx",
   kx |-> RInt(10), domega |-> RInt(0)]
ky_layout_values == [delta_n |-> RInt(1), kx |-> RInt(10)]
dash_layout_values == [delta_n |-> RInt(1), kx |-> Dec(10, 3)]
dashomega_layout_values == [delta_n |-> RInt(1), kx |-> RInt(10)]
shiny_layout_values == [delta_n |-> Dec(1, -5), kx |-> RInt(10)]

LayoutValues(scr, lay) ==
  CASE scr = "multi_dash" /\ lay = "omega_layout" -> omega_layout_values
    [] scr = "multi_dash" /\ lay = "ky_layout" -> ky_layout_values
    [] scr = "multi_dash" /\ lay = "index_page" -> None
    [] scr = "dash-app" -> dash_layout_values
    [] scr = "dash_app-omega" -> dashomega_layout_values
    [] scr = "shiny-app" -> shiny_layout_values

\* a request carries the values of all the controls; one control changed, or
\* none (the call made when the layout is first shown)
OneChange(old, new) ==
  Cardinality({f \in DOMAIN old : old[f] # new[f]}) <= 1

----------------------------------------------------------------------------
(* State *)

VARIABLES
  script,   \* the script that is running
  glob,     \* its module namespace
  layout,   \* the layout on display
  inputs,   \* the values of the controls, as the last request carried them
  out,      \* what the last callback call returned or raised; None before it
  pc,       \* where each invocation in progress stands in its callback
  frame     \* the local variables of each invocation in progress

vars == <<script, glob, layout, inputs, out, pc, frame>>

\* One request at a time: a callback runs from its first line to its return
\* before the next request is taken, so no invocation is ever in progress
\* between two steps.

Init ==
  /\ script \in Scripts
  /\ glob = Globals(script)
  /\ layout = IF script = "multi_dash" THEN "index_page" ELSE "app_layout"
  /\ inputs = LayoutValues(script, layout)
  /\ out = None
  /\ pc = None
  /\ frame = None

\* multi_dash.py: the URL changes and display_page swaps the page content
DisplayPage ==
  /\ script = "multi_dash"
  /\ \E pathname \in Pathnames :
       /\ layout' = display_page(pathname)
       /\ inputs' = LayoutValues(script, layout')
  /\ out' = None
  /\ UNCHANGED <<script, glob, pc, frame>>

\* multi_dash.py: a request to update_omega_plot from the omega page
UpdateOmegaPlot ==
  /\ script = "multi_dash" /\ layout = "omega_layout"
  /\ \E in \in OmegaInputs :
       /\ OneChange(inputs, in)
       /\ \E r \in {update_omega_plot(glob, in.delta_n, in.gvd, in.cut_mode,
                                   in.kx, in.domega)} :
            inputs' = in /\ out' = r.ret /\ glob' = r.globals
  /\ UNCHANGED <<script, layout, pc, frame>>

\* multi_dash.py: a request to update_ky_plot from the ky page
UpdateKyPlot ==
  /\ script = "multi_dash" /\ layout = "ky_layout"
  /\ \E in \in KyInputs :
       /\ OneChange(inputs, in)
       /\ \E r \in {update_ky_plot(glob, in.delta_n, in.kx)} :
            inputs' = in /\ out' = r.ret /\ glob' = r.globals
  /\ UNCHANGED <<script, layout, pc, frame>>

\* dash-app.py: a request to update_plot
UpdatePlot ==
  /\ script = "dash-app"
  /\ \E in \in DashInputs :
       /\ OneChange(inputs, in)
       /\ \E r \in {update_plot(glob, in.delta_n, in.kx)} :
            inputs' = in /\ out' = r.ret /\ glob' = r.globals
  /\ UNCHANGED <<script, layout, pc, frame>>

\* dash_app-omega.py: a request to update_plot
UpdatePlotOmega ==
  /\ script = "dash_app-omega"
  /\ \E in \in DashOmegaInputs :
       /\ OneChange(inputs, in)
       /\ \E r \in {update_plot_omega(glob, in.delta_n, in.kx)} :
            inputs' = in /\ out' = r.ret /\ glob' = r.globals
  /\ UNCHANGED <<script, layout, pc, frame>>

\* shiny-app.py: an input changes and dispersion_plot is rendered again
DispersionPlot ==
  /\ script = "shiny-app"
  /\ \E in \in ShinyInputs :
       /\ OneChange(inputs, in)
       /\ \E r \in {dispersion_plot(glob, in.delta_n, in.kx)} :
            inputs' = in /\ out' = r.ret /\ glob' = r.globals
  /\ UNCHANGED <<script, layout, pc, frame>>

Next ==
  \/ DisplayPage
  \/ UpdateOmegaPlot
  \/ UpdateKyPlot
  \/ UpdatePlot
  \/ UpdatePlotOmega
  \/ DispersionPlot

Spec == Init /\ [][Next]_vars

----------------------------------------------------------------------------
(* The dispersion expressions as functions: each expression of the scripts *)
(* applied once to scalar arguments.  The arguments range over values the  *)
(* sliders give and over values they do not (a negative Delta_n, a         *)
(* negative D0, the origin kx = ky = 0).                                   *)

EvalK == {Dec(-30, 3), Dec(-10, 3), Zero, Dec(10, 3)}
EvalDeltaN == {Dec(-1, -5), Zero, Dec(1, -5), Dec(1, -4)}
EvalDomega == {RInt(-50), Zero, RInt(50)}
EvalD0 == {Dec(-1, -15), Zero, Dec(10, -15)}
\* k0 = 2 pi / lambda0 for the two wavelengths of the scripts, 780 nm and 800 nm
EvalK0 == {multi_dash_globals.k0, shiny_app_globals.k0}

SpatialArgs ==
  [mode : {"spatial"}, kx : EvalK, ky : EvalK, Delta_n : EvalDeltaN, k0 : EvalK0]
OmegaArgs ==
  [mode : {"omega"}, kx : EvalK, domega : EvalDomega, Delta_n : EvalDeltaN,
   D0 : EvalD0, k0 : {multi_dash_globals.k0}]

InitEval ==
  /\ script = "formulas"
  /\ glob = None
  /\ layout = "none"
  /\ inputs \in SpatialArgs \cup OmegaArgs
  /\ out = None
  /\ pc = None
  /\ frame = None

\* the (kx, ky) expressions of dash-app.py, multi_dash.py, shiny-app.py and
\* fluid1.py at the point (kx, ky)
EvalSpatial ==
  /\ inputs.mode = "spatial" /\ out = None
  /\ out' =
       [k |-> "spatial",
        dash |-> dash_OmegaB(inputs.kx, inputs.ky, inputs.Delta_n, inputs.k0),
        ky |-> ky_OmegaB(inputs.kx, inputs.ky, inputs.Delta_n, inputs.k0),
        shiny |-> shiny_OmegaB(inputs.kx, inputs.ky, inputs.Delta_n, inputs.k0),
        fluid1 |-> fluid1_OmegaB(inputs.kx, inputs.ky, inputs.Delta_n, inputs.k0),
        dash_cut |-> dash_cut_at(inputs.kx, inputs.ky, inputs.Delta_n, inputs.k0),
        ky_cut |-> ky_cut_at(inputs.kx, inputs.ky, inputs.Delta_n, inputs.k0),
        shiny_cut |-> shiny_cut_at(inputs.kx, inputs.ky, inputs.Delta_n, inputs.k0),
        fluid1_cut |-> fluid1_cut_at(inputs.kx, inputs.ky, inputs.Delta_n, inputs.k0)]
  /\ UNCHANGED <<script, glob, layout, inputs, pc, frame>>

\* the (kx, domega) expressions of multi_dash.py and dash_app-omega.py at the
\* point (kx, domega), domega in MHz
EvalOmega ==
  /\ inputs.mode = "omega" /\ out = None
  /\ out' =
       [k |-> "omega",
        omega |-> omega_OmegaB(inputs.kx, inputs.domega, inputs.Delta_n,
                               inputs.D0, inputs.k0),
        dashomega |-> dashomega_OmegaB(inputs.kx, inputs.domega, inputs.Delta_n,
                                       inputs.D0, inputs.k0),
        fix_kx |-> omega_fix_kx_cut(inputs.kx, inputs.domega, inputs.Delta_n,
                                    inputs.D0, inputs.k0),
        fix_domega |-> omega_fix_domega_cut(inputs.domega, inputs.kx,
                                            inputs.Delta_n, inputs.D0, inputs.k0),
        dashomega_cut |-> dashomega_cut_at(inputs.kx, inputs.domega,
                                           inputs.Delta_n, inputs.D0, inputs.k0)]
  /\ UNCHANGED <<script, glob, layout, inputs, pc, frame>>

NextEval == EvalSpatial \/ EvalOmega

SpecEval == InitEval /\ [][NextEval]_vars
----------------------------------------------------------------------------
(* Concurrent sessions.  The Dash server handles each request in a thread   *)
(* of its own and shiny runs one server function per session, so the       *)
(* invocations of two sessions can be in progress at once.  An invocation  *)
(* advances statement group by statement group; between two of them the    *)
(* other session may run.  Here inputs, out, pc and frame hold one value   *)
(* per session.                                                            *)

Sessions == {"s1", "s2"}

\* the local variables of an invocation, before the body has bound any
NewFrame ==
  [Delta_n |-> None, D0 |-> None, kx_fixed |-> None, ky_cut |-> None,
   OmegaB |-> None, cut |-> None, k_xi |-> None]

\* the local variables f after the assignments upd
Bind(f, upd) == [n \in DOMAIN f |-> IF n \in DOMAIN upd THEN upd[n] ELSE f[n]]

\* the assignments upd made by session s, were the names they bind module-level
\* names (declared global in the callbacks): every session sees them
StoreGlobal(fr, s, upd) == [t \in DOMAIN fr |-> Bind(fr[t], upd)]

\* The assignments upd made by the invocation of session s.  Every name a
\* callback assigns is a local variable (no callback has a global statement):
\* the assignment binds the name in the frame of that invocation only.
Store(fr, s, upd) == [fr EXCEPT ![s] = Bind(fr[s], upd)]

\* the requests the sessions make: the callback and the values of its inputs
ConcRequests(scr) ==
  IF scr = "multi_dash"
  THEN {[cb |-> "update_omega_plot", delta_n |-> RInt(1), gvd |-> RInt(10),
         cut_mode |-> "fix_kx", kx |-> RInt(10), domega |-> RInt(0)],
        [cb |-> "update_omega_plot", delta_n |-> RInt(10), gvd |-> RInt(100),
         cut_mode |-> "fix_domega", kx |-> RInt(30), domega |-> RInt(100)],
        [cb |-> "update_ky_plot", delta_n |-> RInt(1), kx |-> RInt(30)],
        [cb |-> "update_ky_plot", delta_n |-> RInt(-1), kx |-> RInt(10)]}
  ELSE {[cb |-> "dispersion_plot", delta_n |-> Dec(1, -5), kx |-> RInt(10)],
        [cb |-> "dispersion_plot", delta_n |-> Dec(1, -4), kx |-> RInt(-10)],
        [cb |-> "dispersion_plot", delta_n |-> Dec(-1, -5), kx |-> RInt(10)]}

\* multi_dash.py 209-212, 335-336, shiny-app.py 44-45: the parameters
scale_locals(req) ==
  CASE req.cb = "update_omega_plot" ->
         [Delta_n |-> Mul(req.delta_n, Dec(1, -5)), D0 |-> Mul(req.gvd, Dec(1, -15))]
    [] req.cb = "update_ky_plot" ->
         [Delta_n |-> Mul(req.delta_n, Dec(1, -5)), kx_fixed |-> Mul(req.kx, e3)]
    [] req.cb = "dispersion_plot" ->
         [Delta_n |-> req.delta_n, kx_fixed |-> Mul(req.kx, e3)]

\* multi_dash.py 214-219, 338-339, shiny-app.py 48-49: the surface
surface_locals(g, req, f) ==
  CASE req.cb = "update_omega_plot" ->
         [OmegaB |-> omega_OmegaB(g.KX, g.DOMEGA, f.Delta_n, f.D0, g.k0)]
    [] req.cb = "update_ky_plot" ->
         [OmegaB |-> ky_OmegaB(g.KX_ky, g.KY, f.Delta_n, g.k0)]
    [] req.cb = "dispersion_plot" ->
         [OmegaB |-> shiny_OmegaB(g.KX, g.KY, f.Delta_n, g.k0)]

\* multi_dash.py 222-255, 342-345, shiny-app.py 52-54: the cut; the fix_kx
\* branch of update_omega_plot binds kx_fixed as well, the else branch does not
cut_locals(g, req, f) ==
  CASE req.cb = "update_omega_plot" ->
         CHOOSE r \in {IF req.cut_mode = "fix_kx"
                       THEN [kx_fixed |-> Mul(req.kx, e3), cut |-> c]
                       ELSE [cut |-> c]
                       : c \in {omega_cut(g, req.cut_mode, req.kx, req.domega,
                                          f.Delta_n, f.D0)}}
           : TRUE
    [] req.cb = "update_ky_plot" ->
         CHOOSE r \in {[ky_cut |-> ky_cut,
                        cut |-> ky_cut_at(f.kx_fixed, ky_cut, f.Delta_n, g.k0)]
                       : ky_cut \in {np_linspace(g.kymin, g.kymax, NumSamples)}}
           : TRUE
    [] req.cb = "dispersion_plot" ->
         CHOOSE r \in {[ky_cut |-> ky_cut,
                        cut |-> shiny_cut_at(f.kx_fixed, ky_cut, f.Delta_n, g.k0)]
                       : ky_cut \in {np_linspace(Dec(-80, 3), Dec(80, 3),
                                                 NumSamples)}}
           : TRUE

\* multi_dash.py 257, 347, shiny-app.py 56: k_xi
k_xi_locals(g, req, f) == [k_xi |-> k_xi_of(g.k0, f.Delta_n)]

\* multi_dash.py 259-324, 349-407, shiny-app.py 58-89: the figure returned
figure_of(g, req, f) ==
  CASE req.cb = "update_omega_plot" -> omega_return(g, f.OmegaB, f.cut, f.k_xi)
    [] req.cb = "update_ky_plot" ->
         cut_return([x |-> Div(g.KX_ky, e3), y |-> Div(g.KY, e3), z |-> f.OmegaB],
                    Repeat(Div(f.kx_fixed, e3), len(f.ky_cut)), Div(f.ky_cut, e3),
                    f.cut, f.k_xi, "Wavevector k_y (mm^-1)")
    [] req.cb = "dispersion_plot" ->
         shiny_return(g, f.OmegaB, f.kx_fixed, f.ky_cut, f.cut, f.k_xi)

InitConc ==
  /\ script \in {"multi_dash", "shiny-app"}
  /\ glob = Globals(script)
  /\ layout = "sessions"
  /\ inputs = [s \in Sessions |-> None]
  /\ out = [s \in Sessions |-> None]
  /\ pc = [s \in Sessions |-> "idle"]
  /\ frame = [s \in Sessions |-> NewFrame]

\* a request of session s arrives: its callback is called with the request's
\* values as arguments
Call(s) ==
  /\ pc[s] = "idle"
  /\ \E req \in ConcRequests(script) : inputs' = [inputs EXCEPT ![s] = req]
  /\ out' = [out EXCEPT ![s] = None]
  /\ frame' = [frame EXCEPT ![s] = NewFrame]
  /\ pc' = [pc EXCEPT ![s] = "scale"]
  /\ UNCHANGED <<script, glob, layout>>

\* the invocation of session s converts the slider values
ScaleStep(s) ==
  /\ pc[s] = "scale"
  /\ frame' = Store(frame, s, scale_locals(inputs[s]))
  /\ pc' = [pc EXCEPT ![s] = "surface"]
  /\ UNCHANGED <<script, glob, layout, inputs, out>>

\* the invocation of session s computes the surface
SurfaceStep(s) ==
  /\ pc[s] = "surface"
  /\ frame' = Store(frame, s, surface_locals(glob, inputs[s], frame[s]))
  /\ pc' = [pc EXCEPT ![s] = "cut"]
  /\ UNCHANGED <<script, glob, layout, inputs, out>>

\* the invocation of session s computes the cut
CutStep(s) ==
  /\ pc[s] = "cut"
  /\ frame' = Store(frame, s, cut_locals(glob, inputs[s], frame[s]))
  /\ pc' = [pc EXCEPT ![s] = "k_xi"]
  /\ UNCHANGED <<script, glob, layout, inputs, out>>

\* the invocation of session s computes k_xi
HealingStep(s) ==
  /\ pc[s] = "k_xi"
  /\ frame' = Store(frame, s, k_xi_locals(glob, inputs[s], frame[s]))
  /\ pc' = [pc EXCEPT ![s] = "figure"]
  /\ UNCHANGED <<script, glob, layout, inputs, out>>

\* the invocation of session s builds the figure and returns it, or ends with
\* the exception of round; its frame is gone
ReturnStep(s) ==
  /\ pc[s] = "figure"
  /\ \E r \in {Return(figure_of(glob, inputs[s], frame[s]), glob)} :
       out' = [out EXCEPT ![s] = r.ret] /\ glob' = r.globals
  /\ frame' = [frame EXCEPT ![s] = NewFrame]
  /\ pc' = [pc EXCEPT ![s] = "idle"]
  /\ UNCHANGED <<script, layout, inputs>>

NextConc ==
  \E s \in Sessions :
    \/ Call(s)
    \/ ScaleStep(s)
    \/ SurfaceStep(s)
    \/ CutStep(s)
    \/ HealingStep(s)
    \/ ReturnStep(s)

SpecConc == InitConc /\ [][NextConc]_vars

----------------------------------------------------------------------------
(* The omega page of multi_dash.py with its two callbacks.  A change of a  *)
(* control sends a request to every callback that has the control as an    *)
(* Input: cut-mode-radio to update_slider_visibility and update_omega_plot,*)
(* the sliders to update_omega_plot.  Here layout holds the page with the  *)
(* styles of its two slider containers, and pc what each callback has to   *)
(* do: "pending" while a request to it has not been answered.              *)

\* the values the cut controls take; the other sliders stay as the layout
\* gives them
VisInputs ==
  [delta_n : {omega_layout_values.delta_n}, gvd : {omega_layout_values.gvd},
   cut_mode : CutModes, kx : KxSlider, domega : DomegaSlider]

\* the page is shown: Dash calls every callback of the page once
InitVis ==
  /\ script = "multi_dash"
  /\ glob = Globals(script)
  /\ layout = [page |-> display_page("/omega"),
               kx_slider_div |-> kx_slider_div_style,
               domega_slider_div |-> domega_slider_div_style]
  /\ inputs = omega_layout_values
  /\ out = None
  /\ pc = [update_slider_visibility |-> "pending", update_omega_plot |-> "pending"]
  /\ frame = None

\* the user changes one of the cut controls
ChangeControl ==
  /\ \E in \in VisInputs :
       /\ in # inputs /\ OneChange(inputs, in)
       /\ inputs' = in
       /\ pc' = [update_slider_visibility |->
                   IF in.cut_mode # inputs.cut_mode THEN "pending"
                   ELSE pc.update_slider_visibility,
                 update_omega_plot |-> "pending"]
  /\ UNCHANGED <<script, glob, layout, out, frame>>

\* update_slider_visibility answers: the two styles are set
RunSliderVisibility ==
  /\ pc.update_slider_visibility = "pending"
  /\ \E r \in {update_slider_visibility(inputs.cut_mode)} :
       layout' = [layout EXCEPT !.kx_slider_div = r[1], !.domega_slider_div = r[2]]
  /\ pc' = [pc EXCEPT !.update_slider_visibility = "done"]
  /\ UNCHANGED <<script, glob, inputs, out, frame>>

\* update_omega_plot answers: the figure is set
RunOmegaPlot ==
  /\ pc.update_omega_plot = "pending"
  /\ \E r \in {update_omega_plot(glob, inputs.delta_n, inputs.gvd, inputs.cut_mode,
                                inputs.kx, inputs.domega)} :
       out' = r.ret /\ glob' = r.globals
  /\ pc' = [pc EXCEPT !.update_omega_plot = "done"]
  /\ UNCHANGED <<script, layout, inputs, frame>>

NextVis ==
  \/ ChangeControl
  \/ RunSliderVisibility
  \/ RunOmegaPlot

SpecVis == InitVis /\ [][NextVis]_vars

----------------------------------------------------------------------------
(* Properties of the figures the callbacks return *)

\* the last request was answered with a figure
HasFigure == out.k = "fig"

\* the figure on display is a (kx, ky) surface
SpatialFigure ==
  /\ HasFigure
  /\ \/ script \in {"dash-app", "shiny-app"}
     \/ script = "multi_dash" /\ layout = "ky_layout"

\* the figure on display is a (kx, domega) surface
OmegaFigure ==
  /\ HasFigure
  /\ \/ script = "dash_app-omega"
     \/ script = "multi_dash" /\ layout = "omega_layout"

\* Delta_n as the controls give it: the delta-n sliders of the Dash scripts
\* are in units of 1e-5, the shiny slider gives Delta_n itself
DeltaNGiven ==
  IF script = "shiny-app" THEN inputs.delta_n ELSE RMul(inputs.delta_n, Dec(1, -5))

\* the two axes of the mesh of the (kx, ky) surface on display
AxisA == IF script = "multi_dash" THEN glob.kx_range_ky ELSE glob.kx_range
AxisB == glob.ky_range

\* (K^2 / (2 k0))^2 + K^2 Delta_n with K^2 = a^2 + b^2
SpatialOmega2(a, b, Delta_n, k0) ==
  RAdd(RSq(RDiv(RAdd(RSq(a), RSq(b)), RMul(TWO, k0))),
       RMul(RAdd(RSq(a), RSq(b)), Delta_n))

\* C1: in (kx, ky) mode the surface a callback returns has the shape of the
\* mesh, |B| rows of |A| values, and its value at the mesh point (a, b)
\* satisfies Omega^2 = (K^2/(2 k0))^2 + K^2 Delta_n with K^2 = a^2 + b^2: a
\* function of that point alone.  (The figure plots the point at a / 1e3,
\* b / 1e3.)
C1_SpatialSurfacePointwise ==
  SpatialFigure =>
    /\ len(out.surface.z) = len(AxisB)
    /\ \A j \in 1..len(AxisB) :
         /\ len(out.surface.z.v[j]) = len(AxisA)
         /\ \A i \in 1..len(AxisA) :
              /\ RealEq(out.surface.x.v[j].v[i], RDiv(AxisA.v[i], e3))
              /\ RealEq(out.surface.y.v[j].v[i], RDiv(AxisB.v[j], e3))
              /\ NonNegReal(out.surface.z.v[j].v[i])
              /\ RealEq(SPow2(out.surface.z.v[j].v[i]),
                        SpatialOmega2(AxisA.v[i], AxisB.v[j], DeltaNGiven, glob.k0))

\* a (kx, ky) surface computed by update_plot with Delta_n > 0, in which the
\* value depends on ky: two mesh points of one column differ
C1_Witness ==
  /\ SpatialFigure
  /\ script = "dash-app"
  /\ DeltaNGiven.sg > 0
  /\ ~RealEq(out.surface.z.v[1].v[1], out.surface.z.v[2].v[1])

\* D0 as the script takes it: multi_dash.py from gvd-slider-omega, in units
\* of 1e-15; dash_app-omega.py from its module constant
D0Given ==
  IF script = "multi_dash" THEN RMul(inputs.gvd, Dec(1, -15)) ELSE glob.D0

\* K^2 / (2 k0) + D0 w^2 with K = |kx| and w = domega * 1e6
FreeOmega(kx, domega, D0, k0) ==
  RAdd(RDiv(RSq(kx), RMul(TWO, k0)), RMul(D0, RSq(RMul(domega, e6))))

\* (K^2/(2 k0) + D0 w^2)^2 + K^2 Delta_n + w^2 D0 k0 Delta_n with K = |kx|
\* and w = domega * 1e6
OmegaOmega2(kx, domega, Delta_n, D0, k0) ==
  RAdd(RAdd(RSq(FreeOmega(kx, domega, D0, k0)), RMul(RSq(kx), Delta_n)),
       RMul(RMul(RMul(RSq(RMul(domega, e6)), D0), k0), Delta_n))

\* the cut of the (kx, domega) figure on display runs along domega at fixed kx
CutAtFixedKx == script = "dash_app-omega" \/ inputs.cut_mode = "fix_kx"

\* C2: in (kx, domega) mode every value of the surface and of the cut a
\* callback returns satisfies
\*   Omega^2 = (K^2/(2 k0) + D0 w^2)^2 + K^2 Delta_n + w^2 D0 k0 Delta_n
\* with K = |kx| and w = domega * 1e6, where kx (plotted in mm^-1) and domega
\* (plotted in MHz) are the coordinates of the value; the free trace is
\* K^2/(2 k0) + D0 w^2; k0 enters unscaled.  The cut is drawn at the slider's
\* kx (fix_kx) or at the slider's domega (the other mode).
C2_OmegaValuesScaled ==
  OmegaFigure =>
    /\ \A j \in 1..len(out.surface.z) : \A i \in 1..len(out.surface.z.v[j]) :
         /\ NonNegReal(out.surface.z.v[j].v[i])
         /\ RealEq(SPow2(out.surface.z.v[j].v[i]),
                   OmegaOmega2(RMul(out.surface.x.v[j].v[i], e3),
                               out.surface.y.v[j].v[i],
                               DeltaNGiven, D0Given, glob.k0))
    /\ \A i \in 1..len(out.cut.z) :
         /\ IF CutAtFixedKx THEN RealEq(out.cut.x.v[i], inputs.kx)
            ELSE RealEq(out.cut.y.v[i], inputs.domega)
         /\ NonNegReal(out.cut.z.v[i])
         /\ RealEq(SPow2(out.cut.z.v[i]),
                   OmegaOmega2(RMul(out.cut.x.v[i], e3), out.cut.y.v[i],
                               DeltaNGiven, D0Given, glob.k0))
         /\ RealEq(out.interacting.y.v[i], out.cut.z.v[i])
         /\ RealEq(out.free.y.v[i],
                   FreeOmega(RMul(out.cut.x.v[i], e3), out.cut.y.v[i],
                             D0Given, glob.k0))

\* update_omega_plot has returned a cut along kx at a fixed domega # 0, with
\* Delta_n > 0
C2_Witness ==
  /\ OmegaFigure
  /\ script = "multi_dash"
  /\ inputs.cut_mode = "fix_domega"
  /\ inputs.domega.sg > 0
  /\ DeltaNGiven.sg > 0
  /\ len(out.cut.z) = NumSamples

\* a request has been answered, with a figure or with an exception
Answered == out # None

\* C3: an evaluation called with Delta_n < 0 or k0 <= 0 fails with
\* InvalidParameter, before anything is computed; any other evaluation
\* succeeds and returns a fully populated surface.
C3_InvalidParameterRaised ==
  Answered =>
    IF DeltaNGiven.sg < 0 \/ glob.k0.sg <= 0
    THEN out = Raise("InvalidParameter")
    ELSE /\ HasFigure
         /\ \A j \in 1..len(out.surface.z) : \A i \in 1..len(out.surface.z.v[j]) :
              NonNegReal(out.surface.z.v[j].v[i])

\* the callback of the page on display, called with the control values of the
\* last request as the first call after startup
FirstCall ==
  CASE script = "multi_dash" /\ layout = "omega_layout" ->
         update_omega_plot(Globals(script), inputs.delta_n, inputs.gvd,
                           inputs.cut_mode, inputs.kx, inputs.domega)
    [] script = "multi_dash" /\ layout = "ky_layout" ->
         update_ky_plot(Globals(script), inputs.delta_n, inputs.kx)
    [] script = "dash-app" ->
         update_plot(Globals(script), inputs.delta_n, inputs.kx)
    [] script = "dash_app-omega" ->
         update_plot_omega(Globals(script), inputs.delta_n, inputs.kx)
    [] script = "shiny-app" ->
         dispersion_plot(Globals(script), inputs.delta_n, inputs.kx)

\* C5: after any sequence of callback invocations the module-level grids and
\* constants are those of startup, and what the last invocation returned (or
\* raised) is what the same arguments give as a first call.
C5_Stateless ==
  /\ glob = Globals(script)
  /\ Answered => out = FirstCall.ret

\* update_omega_plot has answered with a figure after at least two requests:
\* two controls differ from what the layout gave them, and one request
\* changes one control
C5_Witness ==
  /\ HasFigure
  /\ script = "multi_dash" /\ layout = "omega_layout"
  /\ Cardinality({f \in DOMAIN inputs : inputs[f] # omega_layout_values[f]}) >= 2

----------------------------------------------------------------------------
(* Properties of the dispersion expressions *)

\* the (kx, domega) expressions have been applied to the arguments
OmegaEvaluated == out.k = "omega"
\* the (kx, ky) expressions have been applied to the arguments
SpatialEvaluated == out.k = "spatial"

\* the arguments are valid: k0 > 0 and Delta_n >= 0
ValidArgs == inputs.k0.sg > 0 /\ inputs.Delta_n.sg >= 0

\* np.sqrt returned a number: its argument was not negative
Real(x) == ~IsNaN(x)

\* every (kx, domega) expression gave a number
OmegaAllReal ==
  /\ Real(out.omega) /\ Real(out.dashomega)
  /\ Real(out.fix_kx.OmegaB_cut) /\ Real(out.fix_domega.OmegaB_cut)
  /\ Real(out.dashomega_cut.OmegaB_cut)

\* C4 as the specification states it: for k0 > 0, Delta_n >= 0 and every real
\* kx, domega and D0, negative D0 included, the argument of the square root
\* of the (kx, domega) formula is non-negative.
C4_RadicandNonNegativeAnyD0 ==
  (OmegaEvaluated /\ ValidArgs) =>
    /\ OmegaOmega2(inputs.kx, inputs.domega, inputs.Delta_n, inputs.D0,
                   inputs.k0).sg >= 0
    /\ OmegaAllReal

\* C4, for D0 >= 0: for k0 > 0, Delta_n >= 0, D0 >= 0 and every real kx and
\* domega the argument of the square root of the (kx, domega) formula is
\* non-negative, and every expression of the scripts gives a number.
C4_RadicandNonNegative ==
  (OmegaEvaluated /\ ValidArgs /\ inputs.D0.sg >= 0) =>
    /\ OmegaOmega2(inputs.kx, inputs.domega, inputs.Delta_n, inputs.D0,
                   inputs.k0).sg >= 0
    /\ OmegaAllReal

\* the (kx, domega) expressions applied at kx = 0, where K^2 Delta_n vanishes,
\* with D0 > 0, Delta_n > 0 and domega # 0
C4_Witness ==
  /\ OmegaEvaluated
  /\ inputs.kx.sg = 0 /\ inputs.D0.sg > 0 /\ inputs.Delta_n.sg > 0
  /\ inputs.domega.sg # 0
  /\ OmegaAllReal

\* the same value: equal numbers, or NaN on both sides
SameValue(x, y) == (IsNaN(x) /\ IsNaN(y)) \/ RealEq(x, y)

\* C7: for k0 > 0, Delta_n >= 0 and any (kx, ky) the (kx, ky) value is >= 0
\* and equal at (kx, ky), (-kx, -ky) and (kx, -ky), in each script; the cut
\* at fixed kx = c is the cut at fixed kx = -c.
C7_SpatialSymmetric ==
  (SpatialEvaluated /\ ValidArgs) =>
    /\ NonNegReal(out.dash) /\ NonNegReal(out.ky)
    /\ NonNegReal(out.shiny) /\ NonNegReal(out.fluid1)
    /\ \A q \in {<<RNeg(inputs.kx), RNeg(inputs.ky)>>, <<inputs.kx, RNeg(inputs.ky)>>} :
         /\ RealEq(out.dash, dash_OmegaB(q[1], q[2], inputs.Delta_n, inputs.k0))
         /\ RealEq(out.ky, ky_OmegaB(q[1], q[2], inputs.Delta_n, inputs.k0))
         /\ RealEq(out.shiny, shiny_OmegaB(q[1], q[2], inputs.Delta_n, inputs.k0))
         /\ RealEq(out.fluid1, fluid1_OmegaB(q[1], q[2], inputs.Delta_n, inputs.k0))
    /\ RealEq(out.dash_cut.OmegaB_cut,
              dash_cut_at(RNeg(inputs.kx), inputs.ky, inputs.Delta_n,
                          inputs.k0).OmegaB_cut)
    /\ RealEq(out.ky_cut.OmegaB_cut,
              ky_cut_at(RNeg(inputs.kx), inputs.ky, inputs.Delta_n,
                        inputs.k0).OmegaB_cut)
    /\ RealEq(out.shiny_cut.OmegaB_cut,
              shiny_cut_at(RNeg(inputs.kx), inputs.ky, inputs.Delta_n,
                           inputs.k0).OmegaB_cut)
    /\ RealEq(out.fluid1_cut.OmegaB_cut,
              fluid1_cut_at(RNeg(inputs.kx), inputs.ky, inputs.Delta_n,
                            inputs.k0).OmegaB_cut)

\* the (kx, ky) expressions applied at a negative kx and a negative ky, with
\* Delta_n > 0, where the value is positive
C7_Witness ==
  /\ SpatialEvaluated
  /\ inputs.kx.sg < 0 /\ inputs.ky.sg < 0 /\ inputs.Delta_n.sg > 0
  /\ NonNegReal(out.shiny) /\ ~RealEq(out.shiny, Zero)

\* C8: in (kx, domega) mode the value at (kx, domega) is the value at
\* (-kx, domega), for every kx, domega and parameters: in the surfaces, in
\* the fix_kx cut (K_cut = kx_fixed) and its free reference, and in the
\* fix_domega cut (K_cut = abs(kx_cut)) and its free reference.
C8_OmegaEvenInKx ==
  OmegaEvaluated =>
    /\ SameValue(out.omega,
                 omega_OmegaB(RNeg(inputs.kx), inputs.domega, inputs.Delta_n,
                              inputs.D0, inputs.k0))
    /\ SameValue(out.dashomega,
                 dashomega_OmegaB(RNeg(inputs.kx), inputs.domega, inputs.Delta_n,
                                  inputs.D0, inputs.k0))
    /\ \A f \in {"OmegaB_cut", "OmegaB_free"} :
         /\ SameValue(out.fix_kx[f],
                      omega_fix_kx_cut(RNeg(inputs.kx), inputs.domega,
                                       inputs.Delta_n, inputs.D0, inputs.k0)[f])
         /\ SameValue(out.fix_domega[f],
                      omega_fix_domega_cut(inputs.domega, RNeg(inputs.kx),
                                           inputs.Delta_n, inputs.D0, inputs.k0)[f])
         /\ SameValue(out.dashomega_cut[f],
                      dashomega_cut_at(RNeg(inputs.kx), inputs.domega,
                                       inputs.Delta_n, inputs.D0, inputs.k0)[f])

\* the (kx, domega) expressions applied at a negative kx, with Delta_n > 0,
\* where the fix_kx cut takes the negative K_cut and gives a number
C8_Witness ==
  /\ OmegaEvaluated
  /\ inputs.kx.sg < 0 /\ inputs.Delta_n.sg > 0
  /\ Real(out.fix_kx.OmegaB_cut)

\* C9: in (kx, ky) mode, for Delta_n >= 0 and k0 > 0 the value at the origin
\* is exactly zero, in each script, in the surface and in the cut expression.
C9_ZeroAtOrigin ==
  (SpatialEvaluated /\ ValidArgs /\ inputs.kx.sg = 0 /\ inputs.ky.sg = 0) =>
    /\ RealEq(out.dash, Zero) /\ RealEq(out.ky, Zero)
    /\ RealEq(out.shiny, Zero) /\ RealEq(out.fluid1, Zero)
    /\ RealEq(out.dash_cut.OmegaB_cut, Zero) /\ RealEq(out.ky_cut.OmegaB_cut, Zero)
    /\ RealEq(out.shiny_cut.OmegaB_cut, Zero)
    /\ RealEq(out.fluid1_cut.OmegaB_cut, Zero)

\* the (kx, ky) expressions applied at the origin with Delta_n > 0
C9_Witness ==
  /\ SpatialEvaluated
  /\ inputs.kx.sg = 0 /\ inputs.ky.sg = 0 /\ inputs.Delta_n.sg > 0

\* K^2/(2 k0) with K^2 = kx^2 + ky^2
FreeSpatial(kx, ky, k0) == RDiv(RAdd(RSq(kx), RSq(ky)), RMul(TWO, k0))

\* the values of Delta_n between 0 and the one the expressions were applied to
SmallerDeltaN == {d \in EvalDeltaN : d.sg >= 0 /\ RLe(d, inputs.Delta_n)}

\* the gap c1 - f1 is no larger than the gap c2 - f2, where both are gaps to
\* the same free reference
GapLe(c1, f1, c2, f2) ==
  /\ Real(c1) /\ Real(c2)
  /\ RealEq(f1, f2)
  /\ RealLe(c1, c2)

\* C10 in (kx, ky) mode: at Delta_n = 0 every script's value is K^2/(2 k0),
\* the free reference of its cut, and the gap to the free reference at a
\* Delta_n' <= Delta_n is no larger than the gap at Delta_n.
SpatialTendsToFree ==
  (SpatialEvaluated /\ ValidArgs) =>
    LET f == FreeSpatial(inputs.kx, inputs.ky, inputs.k0)
    IN  /\ RealEq(out.dash_cut.OmegaB_free, f)
        /\ RealEq(out.ky_cut.OmegaB_free, f)
        /\ RealEq(out.fluid1_cut.OmegaB_free, f)
        /\ inputs.Delta_n.sg = 0 =>
             /\ RealEq(out.dash, f) /\ RealEq(out.ky, f)
             /\ RealEq(out.shiny, f) /\ RealEq(out.fluid1, f)
             /\ RealEq(out.dash_cut.OmegaB_cut, out.dash_cut.OmegaB_free)
             /\ RealEq(out.ky_cut.OmegaB_cut, out.ky_cut.OmegaB_free)
             /\ RealEq(out.shiny_cut.OmegaB_cut, f)
             /\ RealEq(out.fluid1_cut.OmegaB_cut, out.fluid1_cut.OmegaB_free)
        /\ \A d \in SmallerDeltaN :
             /\ LET c == dash_cut_at(inputs.kx, inputs.ky, d, inputs.k0)
                IN  GapLe(c.OmegaB_cut, c.OmegaB_free,
                          out.dash_cut.OmegaB_cut, out.dash_cut.OmegaB_free)
             /\ LET c == ky_cut_at(inputs.kx, inputs.ky, d, inputs.k0)
                IN  GapLe(c.OmegaB_cut, c.OmegaB_free,
                          out.ky_cut.OmegaB_cut, out.ky_cut.OmegaB_free)
             /\ LET c == fluid1_cut_at(inputs.kx, inputs.ky, d, inputs.k0)
                IN  GapLe(c.OmegaB_cut, c.OmegaB_free,
                          out.fluid1_cut.OmegaB_cut, out.fluid1_cut.OmegaB_free)
             /\ GapLe(shiny_OmegaB(inputs.kx, inputs.ky, d, inputs.k0), f,
                      out.shiny, f)

\* C10 in (kx, domega) mode: at Delta_n = 0 the value is the free reference
\* K^2/(2 k0) + D0 w^2, and the gap to the free reference at a
\* Delta_n' <= Delta_n is no larger than the gap at Delta_n.
OmegaTendsToFree ==
  LET f == FreeOmega(inputs.kx, inputs.domega, inputs.D0, inputs.k0)
  IN  /\ RealEq(out.fix_kx.OmegaB_free, f)
      /\ RealEq(out.fix_domega.OmegaB_free, f)
      /\ RealEq(out.dashomega_cut.OmegaB_free, f)
      /\ inputs.Delta_n.sg = 0 =>
           /\ RealEq(out.omega, f) /\ RealEq(out.dashomega, f)
           /\ RealEq(out.fix_kx.OmegaB_cut, out.fix_kx.OmegaB_free)
           /\ RealEq(out.fix_domega.OmegaB_cut, out.fix_domega.OmegaB_free)
           /\ RealEq(out.dashomega_cut.OmegaB_cut, out.dashomega_cut.OmegaB_free)
      /\ \A d \in SmallerDeltaN :
           /\ LET c == omega_fix_kx_cut(inputs.kx, inputs.domega, d, inputs.D0,
                                        inputs.k0)
              IN  GapLe(c.OmegaB_cut, c.OmegaB_free,
                        out.fix_kx.OmegaB_cut, out.fix_kx.OmegaB_free)
           /\ LET c == omega_fix_domega_cut(inputs.domega, inputs.kx, d, inputs.D0,
                                            inputs.k0)
              IN  GapLe(c.OmegaB_cut, c.OmegaB_free,
                        out.fix_domega.OmegaB_cut, out.fix_domega.OmegaB_free)
           /\ LET c == dashomega_cut_at(inputs.kx, inputs.domega, d, inputs.D0,
                                        inputs.k0)
              IN  GapLe(c.OmegaB_cut, c.OmegaB_free,
                        out.dashomega_cut.OmegaB_cut, out.dashomega_cut.OmegaB_free)

\* C10 as the specification states it: in both modes, at Delta_n = 0 the
\* interacting value equals the free reference at every point, and for
\* Delta_n' <= Delta_n the gap Omega - Omega_free at Delta_n' is no larger
\* than at Delta_n, whatever the other parameters (D0 any real) are.
C10_TendsToFreeAnyD0 ==
  /\ SpatialTendsToFree
  /\ (OmegaEvaluated /\ ValidArgs) => OmegaTendsToFree

\* C10, for D0 >= 0: in (kx, ky) mode, and in (kx, domega) mode when D0 >= 0,
\* at Delta_n = 0 the interacting value equals the free reference at every
\* point, and for 0 <= Delta_n' <= Delta_n the gap Omega - Omega_free at
\* Delta_n' is no larger than at Delta_n.
C10_TendsToFree ==
  /\ SpatialTendsToFree
  /\ (OmegaEvaluated /\ ValidArgs /\ inputs.D0.sg >= 0) => OmegaTendsToFree

\* the (kx, domega) expressions applied at Delta_n = 0 with D0 > 0 away from
\* the origin, where the cut and its free reference are the same positive
\* number
C10_Witness ==
  /\ OmegaEvaluated
  /\ inputs.Delta_n.sg = 0 /\ inputs.D0.sg > 0
  /\ inputs.kx.sg # 0 /\ inputs.domega.sg # 0
  /\ RealEq(out.fix_kx.OmegaB_cut, out.fix_kx.OmegaB_free)
  /\ out.fix_kx.OmegaB_free.sg > 0

\* what the callback of a request returns when it runs alone, from its first
\* line to its return, in the namespace the script starts with
Alone(req) ==
  CASE req.cb = "update_omega_plot" ->
         update_omega_plot(Globals(script), req.delta_n, req.gvd, req.cut_mode,
                           req.kx, req.domega).ret
    [] req.cb = "update_ky_plot" ->
         update_ky_plot(Globals(script), req.delta_n, req.kx).ret
    [] req.cb = "dispersion_plot" ->
         dispersion_plot(Globals(script), req.delta_n, req.kx).ret

\* the names the body of a callback has bound when it stands at a position
BoundAt(req, p) ==
  LET first == CASE req.cb = "update_omega_plot" -> {"Delta_n", "D0"}
                 [] OTHER -> {"Delta_n", "kx_fixed"}
      third == CASE req.cb = "update_omega_plot" ->
                      IF req.cut_mode = "fix_kx" THEN {"cut", "kx_fixed"}
                      ELSE {"cut"}
                 [] OTHER -> {"cut", "ky_cut"}
  IN  CASE p \in {"idle", "scale"} -> {}
        [] p = "surface" -> first
        [] p = "cut" -> first \union {"OmegaB"}
        [] p = "k_xi" -> first \union {"OmegaB"} \union third
        [] p = "figure" -> first \union {"OmegaB"} \union third \union {"k_xi"}

\* a session has got an answer to its request
AnsweredTo(s) == pc[s] = "idle" /\ out[s] # None

\* C6: when the callbacks of two sessions run concurrently, their steps
\* interleaved in any order, the result each session gets is the result its
\* callback gives running alone with the session's own values, and no
\* invocation writes state another reads: the module namespace stays as it
\* was at startup, and the local variables of an invocation hold what its
\* own statements bound from its own arguments, and nothing else.
C6_SessionsDoNotInterfere ==
  /\ glob = Globals(script)
  /\ \A s \in Sessions :
       /\ AnsweredTo(s) => out[s] = Alone(inputs[s])
       /\ \A n \in DOMAIN NewFrame :
            (frame[s][n] # None) <=>
              (pc[s] # "idle" /\ n \in BoundAt(inputs[s], pc[s]))
       /\ (pc[s] \notin {"idle", "scale"}) =>
            /\ \A n \in DOMAIN scale_locals(inputs[s]) :
                 frame[s][n] = scale_locals(inputs[s])[n]
            /\ frame[s].kx_fixed # None =>
                 frame[s].kx_fixed = Mul(inputs[s].kx, e3)
            /\ pc[s] = "figure" =>
                 Alone(inputs[s]) = figure_of(Globals(script), inputs[s], frame[s])

\* the invocations of the two sessions are in progress at once, each about
\* to build its figure from the local variables it has bound, for two
\* different requests to the same callback
C6_Witness ==
  /\ pc["s1"] = "figure" /\ pc["s2"] = "figure"
  /\ inputs["s1"].cb = inputs["s2"].cb
  /\ inputs["s1"] # inputs["s2"]
  /\ frame["s1"].OmegaB # frame["s2"].OmegaB
  /\ frame["s1"].k_xi.k = "int" /\ frame["s2"].k_xi.k = "int"

----------------------------------------------------------------------------
(* Properties of k_xi, of the cuts and of the controls *)

\* values of Delta_n from 0 to the largest a slider gives
KXiDeltaN ==
  {Zero, Dec(1, -6), Dec(5, -6), Dec(1, -5), Dec(2, -5), Dec(5, -5), Dec(1, -4)}

\* the figure the return of the callback on display builds from the arrays of
\* the figure on display and kk in the place of k_xi
WithKXi(kk) ==
  CASE script = "multi_dash" /\ layout = "omega_layout" ->
         omega_return(glob, out.surface.z,
                      [OmegaB_cut |-> out.cut.z, OmegaB_free |-> out.free.y,
                       cut_3d_x |-> out.cut.x, cut_3d_y |-> out.cut.y,
                       cut_2d_x |-> out.interacting.x,
                       xaxis_title |-> out.xaxis_title], kk)
    [] script = "shiny-app" ->
         shiny_return(glob, out.surface.z, Mul(inputs.kx, e3),
                      np_linspace(Dec(-80, 3), Dec(80, 3), NumSamples),
                      [OmegaB_cut |-> out.cut.z], kk)
    [] OTHER ->
         cut_return(out.surface, out.cut.x, out.cut.y,
                    [OmegaB_cut |-> out.cut.z, OmegaB_free |-> out.free.y], kk,
                    out.xaxis_title)

\* C11: k_xi = round(k0 sqrt(Delta_n) 1e-3) is non-decreasing in Delta_n for
\* the k0 > 0 of the script (the k_xi of the figure is at least the k_xi of
\* every smaller Delta_n >= 0 and at most that of every larger one), and k_xi
\* is only a label: the figure built with another k_xi has the same surface,
\* cut and free-reference values and differs in the label alone.
C11_KXiMonotoneLabel ==
  HasFigure =>
    /\ out.k_xi.k = "int"
    /\ \A d \in KXiDeltaN :
         /\ RLe(d, DeltaNGiven) => k_xi_of(glob.k0, d).v <= out.k_xi.v
         /\ RLe(DeltaNGiven, d) => out.k_xi.v <= k_xi_of(glob.k0, d).v
    /\ \A kk \in {[k |-> "int", v |-> 0], [k |-> "int", v |-> out.k_xi.v + 1]} :
         WithKXi(kk) = [out EXCEPT !.k_xi = kk]

\* a figure for the largest Delta_n of the slider, whose k_xi is above the
\* k_xi of Delta_n = 1e-5, itself above 0
C11_Witness ==
  /\ HasFigure
  /\ script = "dash_app-omega"
  /\ REq(DeltaNGiven, Dec(1, -4))
  /\ out.k_xi.v > k_xi_of(glob.k0, Dec(1, -5)).v
  /\ k_xi_of(glob.k0, Dec(1, -5)).v > 0

\* the fixed kx of the cut in m^-1, as the callback on display takes it from
\* its control: dash-app.py uses the value as it comes, the others times 1e3
KxFixedGiven ==
  IF script = "dash-app" THEN inputs.kx ELSE RMul(inputs.kx, e3)

\* the surface expression of the callback on display, applied at one point
\* (a, b) of its two axes (m^-1; MHz for domega) with the parameters of the
\* invocation
SurfaceAt(a, b) ==
  CASE script = "multi_dash" /\ layout = "omega_layout" ->
         omega_OmegaB(a, b, DeltaNGiven, D0Given, glob.k0)
    [] script = "multi_dash" /\ layout = "ky_layout" ->
         ky_OmegaB(a, b, DeltaNGiven, glob.k0)
    [] script = "dash-app" -> dash_OmegaB(a, b, DeltaNGiven, glob.k0)
    [] script = "dash_app-omega" ->
         dashomega_OmegaB(a, b, DeltaNGiven, glob.D0, glob.k0)
    [] script = "shiny-app" -> shiny_OmegaB(a, b, DeltaNGiven, glob.k0)

\* the cut of the figure on display runs along the second axis of the mesh
\* (ky or domega) at a fixed kx
CutAlongSecondAxis == SpatialFigure \/ CutAtFixedKx

\* the second coordinate of a point of the figure, in the unit of the formula:
\* ky is plotted in mm^-1, domega in MHz as the formula takes it
SecondCoordinate(v) == IF SpatialFigure THEN RMul(v, e3) ELSE v

\* C12: in every figure, for every callback and cut mode, the i-th value of
\* the cut is the value the surface expression of the same callback gives at
\* (fixed value, i-th sample) with the k0, Delta_n and D0 of the invocation,
\* and the sample points of the cut are the sample points of the varying axis
\* of the mesh of the surface, as many and in the same order.
C12_CutIsSurfaceRestricted ==
  HasFigure =>
    IF CutAlongSecondAxis
    THEN /\ len(out.cut.z) = len(out.surface.y)
         /\ \A i \in 1..len(out.cut.z) :
              /\ RealEq(out.cut.y.v[i], out.surface.y.v[i].v[1])
              /\ RealEq(RMul(out.cut.x.v[i], e3), KxFixedGiven)
              /\ RealEq(out.cut.z.v[i],
                        SurfaceAt(KxFixedGiven, SecondCoordinate(out.cut.y.v[i])))
    ELSE /\ len(out.cut.z) = len(out.surface.x.v[1])
         /\ \A i \in 1..len(out.cut.z) :
              /\ RealEq(out.cut.x.v[i], out.surface.x.v[1].v[i])
              /\ RealEq(out.cut.y.v[i], inputs.domega)
              /\ RealEq(out.cut.z.v[i],
                        SurfaceAt(RMul(out.cut.x.v[i], e3), inputs.domega))

\* update_ky_plot has returned a cut at kx = 30 mm^-1 with Delta_n > 0, whose
\* values at the two ends of the ky axis are positive
C12_Witness ==
  /\ HasFigure
  /\ script = "multi_dash" /\ layout = "ky_layout"
  /\ REq(inputs.kx, RInt(30)) /\ DeltaNGiven.sg > 0
  /\ ~RealEq(out.cut.z.v[1], Zero)
  /\ RealEq(out.cut.z.v[1], out.cut.z.v[len(out.cut.z)])

\* the kx axis of the mesh the cut of the figure on display is drawn on
KxAxis == IF SpatialFigure THEN AxisA ELSE glob.kx_range

\* the fixed kx of the cut on display is kx_fixed (m^-1): it is where the cut
\* is drawn (at kx_fixed / 1e3 mm^-1), it lies within the kx axis of the mesh,
\* and it is the kx the cut values were computed with
CutDrawnAt(kx_fixed) ==
  /\ RLe(KxAxis.v[1], kx_fixed) /\ RLe(kx_fixed, KxAxis.v[len(KxAxis)])
  /\ \A i \in 1..len(out.cut.z) :
       /\ RealEq(RMul(out.cut.x.v[i], Dec(1, 3)), kx_fixed)
       /\ RealEq(out.cut.z.v[i],
                 SurfaceAt(kx_fixed, SecondCoordinate(out.cut.y.v[i])))

\* C13 as the specification states it: in every script the fixed-kx control
\* gives its value in mm^-1 and the value times 1e3 is the fixed kx (m^-1) of
\* the formula, which lies within the kx range of the mesh.
C13_KxControlTimes1e3 ==
  (HasFigure /\ CutAlongSecondAxis) => CutDrawnAt(RMul(inputs.kx, Dec(1, 3)))

\* C13, with dash-app.py apart: in multi_dash.py, dash_app-omega.py and
\* shiny-app.py the fixed-kx control gives its value in mm^-1 and the value
\* times 1e3 is the fixed kx of the formula; in dash-app.py the slider gives
\* m^-1 (0 .. 80000) and the value itself is the fixed kx; in every script the
\* fixed kx lies within the kx range of the mesh the cut is drawn on.
C13_KxControlToMetres ==
  (HasFigure /\ CutAlongSecondAxis) =>
    /\ CutDrawnAt(KxFixedGiven)
    /\ script # "dash-app" => CutDrawnAt(RMul(inputs.kx, Dec(1, 3)))
    /\ script = "dash-app" => CutDrawnAt(inputs.kx)

\* update_plot of dash-app.py has returned the cut for the largest value of
\* its slider, 80000, drawn at 80 mm^-1, the end of the kx axis
C13_Witness ==
  /\ HasFigure /\ script = "dash-app"
  /\ REq(inputs.kx, Dec(80, 3))
  /\ RealEq(out.cut.x.v[1], RInt(80))
  /\ REq(KxAxis.v[len(KxAxis)], inputs.kx)

\* the values of the controls of the page on display lie within the min and
\* max their sliders declare
ControlsInRange ==
  CASE script = "multi_dash" /\ layout = "omega_layout" ->
         /\ DeltaNSliderInRange(inputs.delta_n)
         /\ RLe(RInt(1), inputs.gvd) /\ RLe(inputs.gvd, RInt(100))
         /\ RLe(Zero, inputs.kx) /\ RLe(inputs.kx, RInt(30))
         /\ RLe(Zero, inputs.domega) /\ RLe(inputs.domega, RInt(100))
    [] script = "multi_dash" /\ layout = "ky_layout" ->
         /\ DeltaNSliderInRange(inputs.delta_n)
         /\ RLe(Zero, inputs.kx) /\ RLe(inputs.kx, RInt(30))
    [] script = "multi_dash" /\ layout = "index_page" -> FALSE
    [] script = "dash-app" ->
         /\ DeltaNSliderInRange(inputs.delta_n)
         /\ RLe(Zero, inputs.kx) /\ RLe(inputs.kx, Dec(80, 3))
    [] script = "dash_app-omega" ->
         /\ DeltaNSliderInRange(inputs.delta_n)
         /\ RLe(Zero, inputs.kx) /\ RLe(inputs.kx, RInt(30))
    [] script = "shiny-app" ->
         /\ DeltaNShinyInRange(inputs.delta_n)
         /\ RLe(RInt(-80), inputs.kx) /\ RLe(inputs.kx, RInt(80))

\* C14: whenever the controls are within their sliders' ranges, in any cut
\* mode, the callback returns a figure, and every entry of its surface, of its
\* cut and of its free reference is a real number >= 0: no NaN.
C14_InRangeNonNegative ==
  (Answered /\ ControlsInRange) =>
    /\ HasFigure
    /\ \A j \in 1..len(out.surface.z) : \A i \in 1..len(out.surface.z.v[j]) :
         NonNegReal(out.surface.z.v[j].v[i])
    /\ \A i \in 1..len(out.cut.z) :
         /\ NonNegReal(out.cut.z.v[i])
         /\ script # "shiny-app" =>
              /\ NonNegReal(out.interacting.y.v[i])
              /\ NonNegReal(out.free.y.v[i])

\* update_omega_plot has returned a figure for the largest values of its four
\* sliders, in the 'fix_domega' cut mode
C14_Witness ==
  /\ HasFigure /\ ControlsInRange
  /\ script = "multi_dash" /\ layout = "omega_layout"
  /\ inputs.cut_mode = "fix_domega"
  /\ REq(inputs.delta_n, RInt(10)) /\ REq(inputs.gvd, RInt(100))
  /\ REq(inputs.kx, RInt(30)) /\ REq(inputs.domega, RInt(100))

\* a slider container is displayed
Displayed(style) == style.display # "none"

\* every request has been answered: the styles and the figure are those of
\* the current values of the controls
Settled ==
  pc.update_slider_visibility = "done" /\ pc.update_omega_plot = "done"

\* C15: on the omega page, for every value of the cut-mode selector, once
\* update_slider_visibility has run exactly one of the containers of the kx
\* slider and of the domega slider is displayed and the other has display
\* 'none'; and the displayed slider is the one update_omega_plot takes the
\* cut from: the cut of the figure is drawn at the kx of the kx slider when
\* that slider is displayed, at the domega of the domega slider otherwise.
C15_VisibleSliderIsUsed ==
  pc.update_slider_visibility = "done" =>
    /\ Displayed(layout.kx_slider_div) # Displayed(layout.domega_slider_div)
    /\ "none" \in {layout.kx_slider_div.display, layout.domega_slider_div.display}
    /\ (Settled /\ HasFigure) =>
         IF Displayed(layout.kx_slider_div)
         THEN \A i \in 1..len(out.cut.z) : RealEq(out.cut.x.v[i], inputs.kx)
         ELSE \A i \in 1..len(out.cut.z) : RealEq(out.cut.y.v[i], inputs.domega)

\* the selector has a value that is neither 'fix_kx' nor 'fix_domega', both
\* callbacks have answered, the domega slider is the one displayed and the
\* cut runs along kx at its value, 100 MHz
C15_Witness ==
  /\ Settled /\ HasFigure
  /\ inputs.cut_mode = "other"
  /\ Displayed(layout.domega_slider_div) /\ ~Displayed(layout.kx_slider_div)
  /\ REq(inputs.domega, RInt(100))
  /\ ~RealEq(out.cut.x.v[1], out.cut.x.v[2])

\* the answers of update_omega_plot to the requests that give the Delta_n
\* and gvd sliders the values of the last request
OmegaPlotAgain ==
  [in \in [cut_mode : CutModes, kx : KxSlider, domega : DomegaSlider] |->
     update_omega_plot(glob, inputs.delta_n, inputs.gvd, in.cut_mode, in.kx,
                       in.domega).ret]

\* the surface of an answer, the exception when it is one
SurfaceOf(ret) == IF ret.k = "fig" THEN ret.surface ELSE ret

\* C16: in update_omega_plot the inactive cut control has no influence on the
\* result: in 'fix_kx' mode a request that differs from the last one only in
\* the domega slider gets the same answer, in the other mode a request that
\* differs only in the kx slider gets the same answer, and every request
\* with the same Delta_n and gvd sliders, whatever its cut mode and cut
\* sliders, gets the same surface.
C16_InactiveControlIgnored ==
  (script = "multi_dash" /\ layout = "omega_layout" /\ Answered) =>
    \A in \in DOMAIN OmegaPlotAgain :
      /\ (/\ inputs.cut_mode = "fix_kx" /\ in.cut_mode = inputs.cut_mode
          /\ in.kx = inputs.kx) => OmegaPlotAgain[in] = out
      /\ (/\ inputs.cut_mode # "fix_kx" /\ in.cut_mode = inputs.cut_mode
          /\ in.domega = inputs.domega) => OmegaPlotAgain[in] = out
      /\ SurfaceOf(OmegaPlotAgain[in]) = SurfaceOf(out)

\* a figure cut at fixed kx, answered to a request with the domega slider at
\* 100 MHz and the kx slider at 30 mm^-1, while the fix_domega request with
\* the same sliders is answered with another cut
C16_Witness ==
  /\ script = "multi_dash" /\ layout = "omega_layout" /\ HasFigure
  /\ inputs.cut_mode = "fix_kx"
  /\ REq(inputs.domega, RInt(100)) /\ REq(inputs.kx, RInt(30))
  /\ OmegaPlotAgain[[cut_mode |-> "fix_domega", kx |-> inputs.kx,
                     domega |-> inputs.domega]].cut # out.cut
  /\ \A i \in 1..len(out.cut.z) : RealEq(out.cut.x.v[i], inputs.kx)

====
